---- MODULE Spec2Model ----
(***************************************************************************)
(* NWC server of the Arkade wallet: the connection store (storage.ts),     *)
(* pairing (pairing.ts), the server (server.ts: start / stop / reload,     *)
(* handleRequest, the method handlers, sendResponse) and the wallet        *)
(* connect screen's handlers that mutate the store and reload the server.  *)
(*                                                                         *)
(* Granularity: one action per stretch of code between two awaits on real  *)
(* I/O (relay connect / close, NIP-04 decrypt / encrypt, the ledger).      *)
(* JavaScript runs each such stretch to completion; other callbacks        *)
(* interleave only at the awaits.                                          *)
(***************************************************************************)
EXTENDS Integers, Sequences, FiniteSets, TLC

VARIABLES
  store,          \* localStorage[nwc_connections]: sequence of Connection
  invoiceAmounts, \* localStorage[nwc_invoice_amounts]: address -> sats (0 = no entry)
  nextSecret,     \* number of secrets generated so far (each one is fresh)
  connections,    \* NWCServer.connections: the in-memory list
  relays,         \* NWCServer.relays: Map in insertion order (sequence of URLs)
  running,        \* NWCServer.running
  tasks,          \* start / stop / reload calls in progress
  handlers,       \* handleRequest calls in progress
  deliveries,     \* history: events handed to the onevent callback, per relay
  ops,            \* number of lifecycle calls made so far
  published,      \* history: response events accepted by a relay
  unsent,         \* history: responses sendResponse did not get published
  trail,          \* history: writes and reads of the invoice-amount table, in order
  calls,          \* history: MethodHandler invocations
  sends,          \* history: calls of the ledger's sendOffChain, with outcome
  rebinds,        \* history: trust-on-first-use rebinds performed
  revoked,        \* history: keys whose connection was removed, reload completed
  startCalls,     \* history: direct calls of start(), with the state around them
  started,        \* history: runs of start() that got past the connect loop
  stopped,        \* history: runs of stop() on a running server, once returned
  sockets,        \* relay connections open, each with its request subscription
  held,           \* the relay connections that are values of NWCServer.relays
  codec,          \* pairing.ts called on its own: arguments and results
  stopCalls,      \* history: direct calls of stop(), with what start() was at
  screen,         \* WalletConnect: the pairing URL shown and where it came from
  isRunning,      \* NWCProvider.isRunning
  reads           \* history: balances the ledger reported, with the answer made

vars == <<store, invoiceAmounts, nextSecret, connections, relays, running,
          tasks, handlers, deliveries, ops, published, unsent, trail,
          calls, sends, rebinds, revoked, startCalls, started, reads,
          stopped, sockets, held, codec, stopCalls,
                 screen, isRunning>>

\* What only start / stop / connectToRelay touch besides the pool
wiring == <<stopped, sockets, held>>

-----------------------------------------------------------------------------
(* Bounds of the model *)

MaxSecrets    == 3   \* secrets generated, those of the initial store included
MaxDeliveries == 2   \* events handed to handleRequest during a run of Spec
MaxInflight   == 2   \* handleRequest calls in progress at once
MaxOps        == 2   \* start / stop / reload calls during a run of Spec
MaxStarts     == 1   \* start calls during a run of SpecRequests
MaxTasks      == 1   \* lifecycle calls in progress at once
MaxInvoiceDeliveries == 3   \* events handed over during a run of SpecInvoice
InvoiceAmount == 3   \* sats asked for by the make_invoice requests
MaxLifecycleOps == 3   \* start / stop / reload calls during a run of SpecLifecycle
MaxOverlap    == 2   \* lifecycle calls in progress at once in SpecOverlap
MaxOverlapOps == 3   \* start / stop / reload calls during a run of SpecOverlap

-----------------------------------------------------------------------------
(* Data *)

Range(s) == { s[i] : i \in 1..Len(s) }

\* Array.prototype.find: index of the first element passing the test, 0 if none
FindIndex(s, Test(_)) ==
  IF \E i \in 1..Len(s) : Test(s[i])
  THEN CHOOSE i \in 1..Len(s) : Test(s[i]) /\ \A j \in 1..(i-1) : ~Test(s[j])
  ELSE 0

MapSeq(s, F(_)) == [i \in 1..Len(s) |-> F(s[i])]

Damus  == "wss://relay.damus.io"
Nos    == "wss://nos.lol"
Primal == "wss://relay.primal.net"

\* A relay of the user's choosing (generatePairingUrl's relay parameter)
OtherRelay == "wss://relay.example.com"

defaultRelays == <<Damus, Nos, Primal>>
DEFAULT_RELAY == defaultRelays[1]

AllPermissions ==
  {"pay_invoice", "get_balance", "get_info", "make_invoice", "lookup_invoice"}

\* deriveClientKeypair: sha256 then getPublicKey, a deterministic injection
\* from secrets into keys that no sender key chosen independently hits.
DerivedBase == 100
deriveClientKeypair(secret) == DerivedBase + secret

\* crypto.randomUUID(): one fresh id per created connection
IdBase == 10
randomUUID(n) == IdBase + n

createConnection(clientPubkey, secret, relay) ==
  [id          |-> randomUUID(secret),
   clientPubkey |-> clientPubkey,
   secret      |-> secret,
   relay       |-> relay,
   name        |-> "",
   lastUsed    |-> FALSE,
   permissions |-> AllPermissions]

\* Identity keys of apps that do not derive their key from the secret
UserKeys == {1}

\* A connection persisted by an earlier session, with a narrower permission
\* list (permissions is stored data, read back by getConnections).
LegacyKey == 3
LegacyConnection ==
  [id          |-> IdBase,
   clientPubkey |-> LegacyKey,
   secret      |-> 0,
   relay       |-> Nos,
   name        |-> "",
   lastUsed    |-> TRUE,
   permissions |-> {"get_balance", "get_info"}]

\* A pairing an earlier session created and left pending
Pending(secret) ==
  createConnection(deriveClientKeypair(secret), secret, DEFAULT_RELAY)

\* A pairing an earlier session created, rebound to `key` on its first
\* request (updateConnectionPubkey) and touched (updateLastUsed)
Paired(secret, key) ==
  [Pending(secret) EXCEPT !.clientPubkey = key, !.lastUsed = TRUE]

\* What localStorage may hold when the server is constructed
InitialStores ==
  { <<>>,
    <<Pending(1)>>,
    <<Paired(1, 1), Pending(2)>> }

Secrets(st) == { c.secret : c \in Range(st) } \ {0}

-----------------------------------------------------------------------------
(* storage.ts *)

getConnections == store

addConnectionAlone(st, c) == <<c>>

\* addConnection: lines 35-39
addConnection(st, c) == Append(st, c)

removeConnection(st, idOrPubkey) ==
  LET Keep(c) == c.id # idOrPubkey /\ c.clientPubkey # idOrPubkey
  IN  SelectSeq(st, Keep)

updateLastUsed(st, clientPubkey) ==
  LET Touch(c) == IF c.clientPubkey = clientPubkey
                  THEN [c EXCEPT !.lastUsed = TRUE] ELSE c
  IN  MapSeq(st, Touch)

updateConnectionPubkeyAndSecret(st, idOrSecret, clientPubkey) ==
  LET Bind(c) == IF c.id = idOrSecret \/ c.secret = idOrSecret
                 THEN [c EXCEPT !.clientPubkey = clientPubkey,
                                !.secret = clientPubkey]
                 ELSE c
  IN  MapSeq(st, Bind)

\* updateConnectionName: lines 89-95
updateConnectionName(st, idOrPubkey, name) ==
  LET Name(c) == IF c.id = idOrPubkey \/ c.clientPubkey = idOrPubkey
                 THEN [c EXCEPT !.name = name] ELSE c
  IN  MapSeq(st, Name)

updateConnectionPubkey(st, idOrSecret, clientPubkey) ==
  LET Bind(c) == IF c.id = idOrSecret \/ c.secret = idOrSecret
                 THEN [c EXCEPT !.clientPubkey = clientPubkey] ELSE c
  IN  MapSeq(st, Bind)

\* find((c) => !c.lastUsed): storage.ts line 139, server.ts line 231
FindUnused(list) ==
  LET Unused(c) == ~c.lastUsed
  IN  FindIndex(list, Unused)

noUnusedConnection(st) == 0

\* getUnusedConnection: storage.ts lines 136-140
getUnusedConnection(st) == FindUnused(st)

storeInvoiceAmount(tbl, invoice, amountSats) ==
  [tbl EXCEPT ![invoice] = amountSats]

\* retrieveInvoiceAmount: the amount read (0 = null) and the table after it
retrievedAmount(tbl, invoice) == tbl[invoice]

afterRetrieveKeeps(tbl, invoice) == tbl

\* retrieveInvoiceAmount deletes the entry it found (lines 168-172)
afterRetrieve(tbl, invoice) ==
  IF tbl[invoice] # 0 THEN [tbl EXCEPT ![invoice] = 0] ELSE tbl

-----------------------------------------------------------------------------
(* Request events *)

OwnAddress == "ark1own"     \* getReceivingAddresses(wallet).offchainAddr
ArkAddresses == {OwnAddress}

isArkAddress(a) == a \in ArkAddresses

\* Decrypted content {method, params}; ok = FALSE when nip04.decrypt or
\* JSON.parse throws.  0 stands for an absent params.amount / amount_msat,
\* "" for an absent params.invoice; params = FALSE when the content has no
\* params object at all.
Payload(method, invoice, amount, amount_msat, ok) ==
  [method |-> method, invoice |-> invoice, amount |-> amount,
   amount_msat |-> amount_msat, ok |-> ok, params |-> TRUE]

GetInfo  == Payload("get_info", "", 0, 0, TRUE)
Pay(amount) == Payload("pay_invoice", OwnAddress, amount, 0, TRUE)
MakeInvoice(amount) == Payload("make_invoice", "", amount, 0, TRUE)
Garbled  == Payload("", "", 0, 0, FALSE)
PayTo(invoice, amount) == Payload("pay_invoice", invoice, amount, 0, TRUE)
PayNoParams == [Payload("pay_invoice", "", 0, 0, TRUE) EXCEPT !.params = FALSE]
Request(method) == Payload(method, "", 0, 0, TRUE)

\* Keys a sender can hold now: any identity key, or the key derived from a
\* secret that has been generated (shown in a pairing URL).
SenderKeys == UserKeys \cup {LegacyKey}
                \cup { deriveClientKeypair(s) : s \in 1..nextSecret }

\* The event id is the hash of the signed event: one id per
\* (pubkey, content, created_at).
Event(pubkey, payload, created_at) ==
  [pubkey |-> pubkey, content |-> payload, created_at |-> created_at]

-----------------------------------------------------------------------------
(* server.ts: lifecycle *)

Dedup(s) ==
  LET First(i) == \A j \in 1..(i-1) : s[j] # s[i]
      idx == { i \in 1..Len(s) : First(i) }
      Nth[k \in 0..Len(s)] ==
        IF k = 0 THEN <<>>
        ELSE IF k \in idx THEN Append(Nth[k-1], s[k]) ELSE Nth[k-1]
  IN  Nth[Len(s)]

Relay(c) == c.relay

\* start(): lines 71-79
relaysToConnect(conns) ==
  IF Len(conns) > 0
  THEN Dedup(defaultRelays \o MapSeq(conns, Relay))
  ELSE defaultRelays

SkipNone(todo, pool) == todo

\* connectToRelay returns at once for a relay the pool already holds
RECURSIVE SkipConnected(_, _)
SkipConnected(todo, pool) ==
  IF todo = <<>> THEN <<>>
  ELSE IF Head(todo) \in Range(pool) THEN SkipConnected(Tail(todo), pool)
  ELSE todo

\* Map iteration in stop(): the first entry not yet visited, "" when exhausted
NextEntry(pool, visited) ==
  LET Fresh(u) == u \notin visited
      i == FindIndex(pool, Fresh)
  IN  IF i = 0 THEN "" ELSE pool[i]

RemoveUrl(pool, u) ==
  LET Other(x) == x # u
  IN  SelectSeq(pool, Other)

\* Map.set: a new key is appended, an existing key keeps its place
SetUrl(pool, u) == IF u \in Range(pool) THEN pool ELSE Append(pool, u)

\* A relay connection: its URL and the start() that opened it
Socket(u, n) == [url |-> u, by |-> n]

\* Relay.connect(url) resolved and relay.subscribe ran: lines 192, 197-211
Connected(open, u, n) == open \cup {Socket(u, n)}

\* this.relays.set(url, relay): the value under the key is replaced
SetRelay(vals, u, n) == { h \in vals : h.url # u } \cup {Socket(u, n)}

\* this.relays.delete(url)
DeleteRelay(vals, u) == { h \in vals : h.url # u }

\* this.connections = getConnections(): the list now holds fresh objects, so
\* a handler's connection no longer is an element of it
Detach(hs) == { [h EXCEPT !.alias = 0] : h \in hs }

Task(n, op, pc, url, todo, visited, removed) ==
  [n |-> n, op |-> op, pc |-> pc, url |-> url, todo |-> todo,
   visited |-> visited, removed |-> removed,
   loaded |-> <<>>, stored |-> <<>>, skipped |-> {}, attempted |-> {},
   failed |-> {}, pool0 |-> {}, sock |-> 0]

publishWalletInfoToFirst(pool) ==
  [tags |-> pool, targets |-> IF pool = <<>> THEN {} ELSE {pool[1]}]

\* publishWalletInfo up to its await (141-175): the event carries one relay
\* tag per key of this.relays and is handed to every relay of this.relays
publishWalletInfo(pool) == [tags |-> pool, targets |-> Range(pool)]

\* The connect loop of start() is over: lines 91-96.  With an empty pool
\* Promise.all([]) settles without I/O and start() returns in the same step.
FinishLoop(t, others, pool) ==
  /\ running' = TRUE
  /\ started' = started \cup
       {[n |-> t.n, op |-> t.op, loaded |-> t.loaded, stored |-> t.stored,
         skipped |-> t.skipped, attempted |-> t.attempted,
         failed |-> t.failed, pool |-> pool, info |-> publishWalletInfo(pool),
         settled |-> pool = <<>>, broadcastOk |-> TRUE, running |-> running',
         kept |-> TRUE]}
  /\ IF pool = <<>>
     THEN /\ tasks' = others
          /\ revoked' = revoked \cup t.removed
     ELSE /\ tasks' = others \cup
               {[t EXCEPT !.pc = "announcing", !.url = "", !.todo = <<>>]}
          /\ UNCHANGED revoked

\* start() past its running check (callers reach it with running = FALSE),
\* with pool `pool` and store `st`; `others` are the other calls in progress.
\* Lines 66-97.  The caller has set store'.
BeginStart(n, op, removed, others, pool, st) ==
  LET wanted == relaysToConnect(st)
      todo == SkipConnected(wanted, pool)
      t == [Task(n, op, "dialing", "", <<>>, {}, removed)
              EXCEPT !.loaded = st, !.stored = store',
                     !.skipped = Range(wanted) \ Range(todo)]
  IN  /\ connections' = st
      /\ handlers' = Detach(handlers)
      /\ IF todo = <<>>
         THEN FinishLoop(t, others, pool)
         ELSE /\ running' = FALSE
              /\ tasks' = others \cup
                   {[t EXCEPT !.url = Head(todo), !.todo = Tail(todo),
                              !.attempted = {Head(todo)}]}
              /\ UNCHANGED <<revoked, started>>

\* The value of this.relays under key u
HeldAt(u) == CHOOSE h \in held : h.url = u

\* this.running = false: line 115
afterStop == FALSE

\* stop() has gone through this.relays and returns
StopReturns(t, pool) ==
  stopped' = stopped \cup
    {[n |-> t.n, op |-> t.op, pool0 |-> t.pool0, attempted |-> t.attempted,
      failed |-> t.failed, poolEnd |-> pool, running |-> afterStop]}

\* stop() from its first line; a reload goes on into start().  Lines 102-128.
\* The caller has set store'.
BeginStop(n, op, removed, others, st) ==
  IF ~running
  THEN /\ UNCHANGED stopped
       /\ IF op = "reload"
          THEN BeginStart(n, op, removed, others, relays, st)
          ELSE /\ tasks' = others
               /\ UNCHANGED <<connections, handlers, running, revoked,
                              started>>
  ELSE LET u == NextEntry(relays, {})
           t == [Task(n, op, "closing", u, <<>>, {}, removed)
                   EXCEPT !.pool0 = Range(relays)]
       IN
       IF u = ""
       THEN /\ StopReturns(t, relays)
            /\ IF op = "reload"
               THEN BeginStart(n, op, removed, others, relays, st)
               ELSE /\ running' = afterStop
                    /\ tasks' = others
                    /\ UNCHANGED <<connections, handlers, revoked, started>>
       ELSE /\ tasks' = others \cup
                 {[t EXCEPT !.attempted = {u}, !.sock = HeldAt(u).by]}
            /\ UNCHANGED <<connections, handlers, running, revoked, started,
                           stopped>>

\* What the provider sets isRunning to after its await on the server's call:
\* part_004 343 and 365 (start), 376 (stop), 387-389 (reload)
afterCall(op, st) ==
  CASE op = "start" -> TRUE
    [] op = "stop" -> FALSE
    [] OTHER -> Len(st) > 0

\* The call numbered n either is still in progress or has returned to the
\* provider, which then sets isRunning
Settle(n, op) ==
  isRunning' = IF n \in { x.n : x \in tasks' } THEN isRunning
               ELSE afterCall(op, store')

CanCall(maxOps, maxTasks) == ops < maxOps /\ Cardinality(tasks) < maxTasks

NeverRunning == FALSE

\* if (this.running) return: lines 61-64
AlreadyRunning == running

\* if (!server || isRunning) return: part_004 362; initServer calls start()
\* once, with isRunning as initialised
StartGuard == ~isRunning

\* NWCProvider.initServer / startServer: server.start()
CallStart(maxOps, maxTasks) ==
  /\ CanCall(maxOps, maxTasks)
  /\ StartGuard
  /\ ops' = ops + 1
  /\ UNCHANGED <<store, invoiceAmounts, nextSecret, relays, deliveries,
                 published, unsent, trail, calls, sends, rebinds, reads,
                 wiring, codec, stopCalls,
                 screen>>
  /\ IF AlreadyRunning
     THEN UNCHANGED <<connections, handlers, running, tasks, revoked, started>>
     ELSE BeginStart(ops + 1, "start", {}, tasks, relays, store)
  /\ startCalls' = startCalls \cup
       {[n |-> ops + 1, wasRunning |-> running,
         before |-> [relays |-> relays, connections |-> connections,
                     running |-> running, tasks |-> tasks, started |-> started],
         after |-> [relays |-> relays', connections |-> connections',
                    running |-> running', tasks |-> tasks',
                    started |-> started']]}
  /\ Settle(ops + 1, "start")

\* A call of stop(): whether the server was running, and the start() calls
\* that were inside their connect loop (lines 83-89) when it was made
StopCall(n) ==
  [n |-> n, wasRunning |-> running,
   connecting |-> { t.n : t \in { x \in tasks : x.pc = "dialing" } }]

\* if (!server || !isRunning) return: part_004 373
StopGuard == isRunning

\* NWCProvider.stopServer: server.stop()
StopServer(maxOps, maxTasks, guard) ==
  /\ CanCall(maxOps, maxTasks)
  /\ guard
  /\ ops' = ops + 1
  /\ UNCHANGED <<store, invoiceAmounts, nextSecret, relays, deliveries,
                 published, unsent, trail, calls, sends, rebinds,
                 startCalls, reads, sockets, held, codec, screen>>
  /\ BeginStop(ops + 1, "stop", {}, tasks, store)
  /\ stopCalls' = stopCalls \cup {StopCall(ops + 1)}
  /\ Settle(ops + 1, "stop")

CallStop(maxOps, maxTasks) == StopServer(maxOps, maxTasks, StopGuard)

\* The wallet connect screen is reached after NWCProvider.initServer has
\* constructed the server and called start()
ScreenOpen == ops > 0

\* WalletConnect.handleRefresh: reloadServer()
Refresh(maxOps, maxTasks) ==
  /\ CanCall(maxOps, maxTasks)
  /\ ScreenOpen
  /\ ops' = ops + 1
  /\ UNCHANGED <<store, invoiceAmounts, nextSecret, relays, deliveries,
                 published, unsent, trail, calls, sends, rebinds,
                 startCalls, reads, sockets, held, codec, stopCalls,
                 screen>>
  /\ BeginStop(ops + 1, "reload", {}, tasks, store)
  /\ Settle(ops + 1, "reload")

RemainingUnlessFailed(todo, ok) == IF ok THEN todo ELSE <<>>

\* The loop of start() goes on to the relays left, whether connectToRelay
\* returned or threw: the try / catch of lines 83-89
Remaining(todo, ok) == todo

\* The await on Relay.connect(url) returns: connectToRelay lines 192-217, then
\* the loop of start() goes on
DialDone(t, ok) ==
  /\ t \in tasks /\ t.pc = "dialing"
  /\ UNCHANGED <<store, invoiceAmounts, nextSecret, connections, handlers,
                 deliveries, ops, published, unsent, trail, calls, sends,
                 rebinds, startCalls, reads, stopped, codec, stopCalls,
                 screen>>
  /\ sockets' = IF ok THEN Connected(sockets, t.url, t.n) ELSE sockets
  /\ held' = IF ok THEN SetRelay(held, t.url, t.n) ELSE held
  /\ LET pool == IF ok THEN SetUrl(relays, t.url) ELSE relays
         left == Remaining(t.todo, ok)
         todo == SkipConnected(left, pool)
         t1 == [t EXCEPT !.failed = IF ok THEN @ ELSE @ \cup {t.url},
                         !.skipped = @ \cup (Range(left) \ Range(todo))]
         \* a key set anew is a new Map entry for an iteration in progress
         Revisit(s) == IF ok /\ t.url \notin Range(relays) /\ s.pc = "closing"
                       THEN [s EXCEPT !.visited = @ \ {t.url}] ELSE s
         others == { Revisit(s) : s \in tasks \ {t} }
     IN  /\ relays' = pool
         /\ IF todo = <<>>
            THEN FinishLoop(t1, others, pool)
            ELSE /\ tasks' = others \cup
                      {[t1 EXCEPT !.url = Head(todo), !.todo = Tail(todo),
                                  !.attempted = @ \cup {Head(todo)}]}
                 /\ UNCHANGED <<running, revoked, started>>
  /\ Settle(t.n, t.op)

\* The await on Promise.all(publishPromises) returns (line 170): each publish
\* was accepted, or some were rejected and logged (165-167); start() returns
AnnounceDone(t, ok) ==
  /\ t \in tasks /\ t.pc = "announcing"
  /\ tasks' = tasks \ {t}
  /\ revoked' = revoked \cup t.removed
  /\ UNCHANGED <<store, invoiceAmounts, nextSecret, connections, relays,
                 running, handlers, deliveries, ops, published, unsent, trail,
                 calls, sends, rebinds, startCalls, reads, wiring, codec, stopCalls,
                 screen>>
  /\ started' = { IF r.n = t.n
                  THEN [r EXCEPT !.settled = TRUE, !.broadcastOk = ok,
                                 !.kept = (running' = running)]
                  ELSE r : r \in started }
  /\ Settle(t.n, t.op)

NextToCloseUnlessFailed(pool, visited, ok) ==
  IF ok THEN NextEntry(pool, visited) ELSE ""

\* The for-of over this.relays goes on to the next entry whether close()
\* returned or threw: the try / catch of lines 107-112
NextToClose(pool, visited, ok) == NextEntry(pool, visited)

\* The await on relay.close() returns: stop lines 106-116.  The relay closed
\* is the one the iteration read at the entry; delete() removes the key.
CloseDone(t, ok) ==
  /\ t \in tasks /\ t.pc = "closing"
  /\ UNCHANGED <<store, invoiceAmounts, nextSecret, deliveries, ops,
                 published, unsent, trail, calls, sends, rebinds,
                 startCalls, reads, codec, stopCalls,
                 screen>>
  /\ sockets' = IF ok THEN sockets \ {Socket(t.url, t.sock)} ELSE sockets
  /\ held' = IF ok THEN DeleteRelay(held, t.url) ELSE held
  /\ LET pool == IF ok THEN RemoveUrl(relays, t.url) ELSE relays
         visited == t.visited \cup {t.url}
         u == NextToClose(pool, visited, ok)
         t1 == [t EXCEPT !.failed = IF ok THEN @ ELSE @ \cup {t.url}]
         others == tasks \ {t}
     IN  /\ relays' = pool
         /\ IF u # ""
            THEN /\ tasks' = others \cup
                      {[t1 EXCEPT !.url = u, !.visited = visited,
                                  !.attempted = @ \cup {u},
                                  !.sock = HeldAt(u).by]}
                 /\ UNCHANGED <<connections, handlers, running, revoked,
                                started, stopped>>
            ELSE /\ StopReturns(t1, pool)
                 /\ IF t.op = "reload"
                    THEN BeginStart(t.n, t.op, t.removed, others, pool, store)
                    ELSE /\ running' = afterStop
                         /\ tasks' = others
                         /\ UNCHANGED <<connections, handlers, revoked,
                                        started>>
  /\ Settle(t.n, t.op)

-----------------------------------------------------------------------------
(* pairing.ts: pairing URLs.  A string is the sequence of its characters;  *)
(* URLSearchParams and URL are the platform's (WHATWG URL Standard).       *)

RECURSIVE Fill(_, _)
Fill(c, n) == IF n = 0 THEN <<>> ELSE <<c>> \o Fill(c, n - 1)

Digit == {"0", "1", "2", "3", "4", "5", "6", "7", "8", "9"}

LowerAlpha ==
  {"a", "b", "c", "d", "e", "f", "h", "i", "l", "m", "n", "o", "p", "r", "s",
   "t", "u", "w", "x", "y"}

UpperAlpha == {"A", "F"}

Alpha == LowerAlpha \cup UpperAlpha

toLowerCase(c) == CASE c = "A" -> "a" [] c = "F" -> "f" [] OTHER -> c

\* The characters the application/x-www-form-urlencoded serializer leaves as
\* they are
FormSafe == Alpha \cup Digit \cup {"*", "-", ".", "_"}

\* The other characters of the model's alphabet and their percent codes
Escaped == {":", "/", "+", "%", "&", "=", "#", "?", "@"}

PercentCode(c) ==
  CASE c = ":" -> <<"3", "A">> [] c = "/" -> <<"2", "F">>
    [] c = "+" -> <<"2", "B">> [] c = "%" -> <<"2", "5">>
    [] c = "&" -> <<"2", "6">> [] c = "=" -> <<"3", "D">>
    [] c = "#" -> <<"2", "3">> [] c = "?" -> <<"3", "F">>
    [] c = "@" -> <<"4", "0">>

serializeByte(c) ==
  IF c \in FormSafe THEN <<c>>
  ELSE IF c = " " THEN <<"+">>
  ELSE <<"%">> \o PercentCode(c)

RECURSIVE urlencode(_)
urlencode(s) ==
  IF s = <<>> THEN <<>> ELSE serializeByte(Head(s)) \o urlencode(Tail(s))

RELAY_NAME == <<"r", "e", "l", "a", "y">>
SECRET_NAME == <<"s", "e", "c", "r", "e", "t">>

\* URLSearchParams.toString() of a list of name / value pairs
RECURSIVE paramsToString(_)
paramsToString(params) ==
  IF params = <<>> THEN <<>>
  ELSE urlencode(params[1][1]) \o <<"=">> \o urlencode(params[1][2]) \o
       (IF Len(params) = 1 THEN <<>> ELSE <<"&">>) \o
       paramsToString(Tail(params))

NWC_SCHEME ==
  << "n", "o", "s", "t", "r", "+", "w", "a", "l", "l", "e", "t", "c", "o",
    "n", "n", "e", "c", "t", ":", "/", "/" >>

HTTPS_SCHEME == <<"h", "t", "t", "p", "s", ":", "/", "/">>

\* generatePairingUrl lines 86-89, reconstructPairingUrl lines 51-54
formatPairingUrl(walletPubkey, relay, secret) ==
  NWC_SCHEME \o walletPubkey \o <<"?">> \o
  paramsToString(<< <<RELAY_NAME, relay>>, <<SECRET_NAME, secret>> >>)

\* Index of the first character of s that is in `set`, 0 if there is none
IndexOfAny(s, set) ==
  IF \E i \in 1..Len(s) : s[i] \in set
  THEN CHOOSE i \in 1..Len(s) : s[i] \in set /\ \A j \in 1..(i-1) : s[j] \notin set
  ELSE 0

\* String.prototype.indexOf
IndexOf(s, p) ==
  LET At(i) == SubSeq(s, i, i + Len(p) - 1) = p
      last == Len(s) - Len(p) + 1
  IN  IF \E i \in 1..last : At(i)
      THEN CHOOSE i \in 1..last : At(i) /\ \A j \in 1..(i-1) : ~At(j)
      ELSE 0

From(s, i) == SubSeq(s, i, Len(s))
Upto(s, i) == SubSeq(s, 1, IF i > Len(s) THEN Len(s) ELSE i)

\* String.prototype.replace with a string pattern: the first occurrence only
replace(s, p, q) ==
  LET i == IndexOf(s, p)
  IN  IF i = 0 THEN s ELSE Upto(s, i - 1) \o q \o From(s, i + Len(p))

RECURSIVE percentDecode(_)
percentDecode(s) ==
  IF s = <<>> THEN <<>>
  ELSE IF /\ Head(s) = "%" /\ Len(s) >= 3
          /\ \E c \in Escaped : PercentCode(c) = <<s[2], s[3]>>
       THEN <<CHOOSE c \in Escaped : PercentCode(c) = <<s[2], s[3]>>>> \o
            percentDecode(From(s, 4))
       ELSE <<Head(s)>> \o percentDecode(Tail(s))

PlusToSpace(s) == [i \in 1..Len(s) |-> IF s[i] = "+" THEN " " ELSE s[i]]

formDecode(s) == percentDecode(PlusToSpace(s))

RECURSIVE Split(_, _)
Split(s, sep) ==
  LET i == IndexOfAny(s, {sep})
  IN  IF i = 0 THEN <<s>> ELSE <<Upto(s, i - 1)>> \o Split(From(s, i + 1), sep)

\* The application/x-www-form-urlencoded parser: URL.searchParams
RECURSIVE pairsOf(_)
pairsOf(pieces) ==
  IF pieces = <<>> THEN <<>>
  ELSE LET p == Head(pieces)
           i == IndexOfAny(p, {"="})
           name == IF i = 0 THEN p ELSE Upto(p, i - 1)
           value == IF i = 0 THEN <<>> ELSE From(p, i + 1)
       IN  (IF p = <<>> THEN <<>>
            ELSE << <<formDecode(name), formDecode(value)>> >>) \o
           pairsOf(Tail(pieces))

searchParams(query) == pairsOf(Split(query, "&"))

\* URLSearchParams.get: the first value under the name, null if none
get(params, name) ==
  LET i == IF \E j \in 1..Len(params) : params[j][1] = name
           THEN CHOOSE j \in 1..Len(params) :
                  /\ params[j][1] = name
                  /\ \A k \in 1..(j-1) : params[k][1] # name
           ELSE 0
  IN  IF i = 0 THEN [null |-> TRUE, value |-> <<>>]
      ELSE [null |-> FALSE, value |-> params[i][2]]

RECURSIVE Strip(_)
Strip(s) ==
  IF s # <<>> /\ Head(s) = " " THEN Strip(Tail(s))
  ELSE IF s # <<>> /\ s[Len(s)] = " " THEN Strip(Upto(s, Len(s) - 1))
  ELSE s

Lowered(s) == [i \in 1..Len(s) |-> toLowerCase(s[i])]

SpecialSchemes ==
  { <<"h", "t", "t", "p", "s">>,
    <<"h", "t", "t", "p">>,
    <<"w", "s", "s">>, <<"w", "s">>, <<"f", "t", "p">> }

\* Forbidden host code points, and the further ones forbidden in a domain
ForbiddenHost ==
  {" ", "#", "/", ":", "<", ">", "?", "@", "[", "\\", "]", "^", "|"}

ForbiddenDomain == ForbiddenHost \cup {"%"}

URLFailure == [ok |-> FALSE, hostname |-> <<>>, query |-> <<>>]

IsNumber(s) == s # <<>> /\ \A i \in 1..Len(s) : s[i] \in Digit

RECURSIVE ToNat(_)
ToNat(s) ==
  IF s = <<>> THEN 0
  ELSE 10 * ToNat(Upto(s, Len(s) - 1)) +
       (CHOOSE d \in 0..9 : ToString(d) = s[Len(s)])

MaxIPv4Digits == 10   \* 2^32 - 1 has ten decimal digits

\* The host parser on the host of a special URL: percent-decode, lower-case,
\* reject forbidden code points; a host whose last label is a number is an
\* IPv4 address, and one whose number exceeds 2^32 - 1 fails.  Shorter
\* numbers, which serialize as dotted quads, are no input of this model.
domainHost(host) ==
  LET d == Lowered(percentDecode(host))
      labels == Split(d, ".")
      last == IF Len(labels) > 1 /\ labels[Len(labels)] = <<>>
              THEN labels[Len(labels) - 1] ELSE labels[Len(labels)]
  IN  CASE d = <<>> -> [ok |-> FALSE, hostname |-> <<>>]
        [] d # <<>> /\ Range(d) \cap ForbiddenDomain # {} ->
             [ok |-> FALSE, hostname |-> <<>>]
        [] d # <<>> /\ Range(d) \cap ForbiddenDomain = {} /\ ~IsNumber(last) ->
             [ok |-> TRUE, hostname |-> d]
        [] /\ d # <<>> /\ Range(d) \cap ForbiddenDomain = {} /\ IsNumber(last)
           /\ Len(labels) = 1 /\ Len(last) > MaxIPv4Digits /\ last[1] # "0" ->
             [ok |-> FALSE, hostname |-> <<>>]

\* The opaque-host parser, for the host of a URL that is not special
opaqueHost(host) ==
  IF Range(host) \cap ForbiddenHost # {}
  THEN [ok |-> FALSE, hostname |-> <<>>]
  ELSE [ok |-> TRUE, hostname |-> host]

MAX_PORT == 65535

\* authority = [userinfo "@"] host [":" port]
parseAuthority(authority, special) ==
  LET at == IF \E i \in 1..Len(authority) : authority[i] = "@"
            THEN CHOOSE i \in 1..Len(authority) :
                   authority[i] = "@" /\ \A j \in (i+1)..Len(authority) :
                                            authority[j] # "@"
            ELSE 0
      hostport == From(authority, at + 1)
      colon == IndexOfAny(hostport, {":"})
      host == IF colon = 0 THEN hostport ELSE Upto(hostport, colon - 1)
      port == IF colon = 0 THEN <<>> ELSE From(hostport, colon + 1)
      portOk == \/ port = <<>>
                \/ IsNumber(port) /\ Len(port) <= 5 /\ ToNat(port) <= MAX_PORT
  IN  IF ~portOk THEN [ok |-> FALSE, hostname |-> <<>>]
      ELSE IF special THEN domainHost(host)
      ELSE IF host = <<>> /\ (at > 0 \/ colon > 0)
           THEN [ok |-> FALSE, hostname |-> <<>>]
      ELSE opaqueHost(host)

RECURSIVE SkipSlashes(_)
SkipSlashes(s) ==
  IF s # <<>> /\ Head(s) \in {"/", "\\"} THEN SkipSlashes(Tail(s)) ELSE s

\* The query of what follows the authority or the scheme: from the first "?"
\* to the fragment
queryOf(rest) ==
  LET hash == IndexOfAny(rest, {"#"})
      body == IF hash = 0 THEN rest ELSE Upto(rest, hash - 1)
      q == IndexOfAny(body, {"?"})
  IN  IF q = 0 THEN <<>> ELSE From(body, q + 1)

\* new URL(input), no base: hostname and search of the parsed URL, or the
\* TypeError
URL(input) ==
  LET s == Strip(input)
      colon == IndexOfAny(s, {":"})
      scheme == Lowered(Upto(s, colon - 1))
      schemeOk == /\ colon > 1 /\ s[1] \in Alpha
                  /\ \A i \in 2..(colon - 1) :
                        s[i] \in Alpha \cup Digit \cup {"+", "-", "."}
      rest == From(s, colon + 1)
      special == scheme \in SpecialSchemes
      hasAuthority == special \/ Upto(rest, 2) = <<"/", "/">>
      after == IF special THEN SkipSlashes(rest) ELSE From(rest, 3)
      stop == IndexOfAny(after, {"/", "\\", "?", "#"})
      authority == IF stop = 0 THEN after ELSE Upto(after, stop - 1)
      tail == IF stop = 0 THEN <<>> ELSE From(after, stop)
      h == parseAuthority(authority, special)
  IN  IF ~schemeOk THEN URLFailure
      ELSE IF ~hasAuthority
           THEN [ok |-> TRUE, hostname |-> <<>>, query |-> queryOf(rest)]
      ELSE IF ~h.ok THEN URLFailure
      ELSE [ok |-> TRUE, hostname |-> h.hostname, query |-> queryOf(tail)]

NoPairing ==
  [null |-> TRUE, walletPubkey |-> <<>>, relay |-> <<>>, secret |-> <<>>]

incompleteNever(walletPubkey, relay, secret) == FALSE

\* if (!walletPubkey || !relay || !secret): line 116
incomplete(walletPubkey, relay, secret) ==
  \/ walletPubkey = <<>>
  \/ relay.null \/ relay.value = <<>>
  \/ secret.null \/ secret.value = <<>>

\* parsePairingUrl: lines 102-125
parsePairingUrl(pairingUrl) ==
  LET parsed == URL(replace(pairingUrl, NWC_SCHEME, HTTPS_SCHEME))
      params == searchParams(parsed.query)
      walletPubkey == parsed.hostname
      relay == get(params, RELAY_NAME)
      secret == get(params, SECRET_NAME)
  IN  IF ~parsed.ok THEN NoPairing
      ELSE IF incomplete(walletPubkey, relay, secret) THEN NoPairing
      ELSE [null |-> FALSE, walletPubkey |-> walletPubkey,
            relay |-> relay.value, secret |-> secret.value]

\* The characters of the relay URLs of the model
Spell(relay) ==
  CASE relay = Damus ->
      << "w", "s", "s", ":", "/", "/", "r", "e", "l", "a", "y", ".", "d",
        "a", "m", "u", "s", ".", "i", "o" >>
    [] relay = Nos ->
      << "w", "s", "s", ":", "/", "/", "n", "o", "s", ".", "l", "o", "l" >>
    [] relay = Primal ->
      << "w", "s", "s", ":", "/", "/", "r", "e", "l", "a", "y", ".", "p",
        "r", "i", "m", "a", "l", ".", "n", "e", "t" >>
    [] relay = OtherRelay ->
      << "w", "s", "s", ":", "/", "/", "r", "e", "l", "a", "y", ".", "e",
        "x", "a", "m", "p", "l", "e", ".", "c", "o", "m" >>

SECRET_BYTES == 32

\* hex.encode of the 32 random bytes of generateSecret (lines 18-21): two
\* characters a byte, a different string for each secret
hexEncode(secret) == Fill("c", 2 * SECRET_BYTES - 1) \o <<ToString(secret)>>

\* generatePairingUrl, lines 69-95, on store `st`, with the secret drawn
generatePairingUrl(st, walletPubkey, relay, secret) ==
  LET connection == createConnection(deriveClientKeypair(secret), secret, relay)
  IN  [store |-> addConnection(st, connection),
       url |-> formatPairingUrl(walletPubkey, Spell(relay), hexEncode(secret)),
       connection |-> connection]

\* reconstructPairingUrl, lines 49-55
reconstructPairingUrl(walletPubkey, connection) ==
  formatPairingUrl(walletPubkey, Spell(connection.relay),
                   hexEncode(connection.secret))

KEY_BYTES == 32

\* getPublicKey: an x-only public key in lower-case hex, two characters a
\* byte.  Three shapes: letters then a digit, a letter then digits, digits only
KeyA == Fill("a", 2 * KEY_BYTES - 1) \o <<"1">>
KeyB == <<"f">> \o Fill("1", 2 * KEY_BYTES - 1)
KeyC == Fill("1", 2 * KEY_BYTES)

WalletPubkeys == {KeyA, KeyB, KeyC}

\* The key of the wallet in the runs of the server
walletPubkey == KeyA

-----------------------------------------------------------------------------
(* WalletConnect screen: handlers that change the store, then reloadServer *)

\* setPairingUrl(url): the URL on the screen, the connection it is for, and
\* whether that connection was in the store already
Shown(via, url, connection, reused) ==
  [via |-> via, url |-> url, conn |-> connection.id, reused |-> reused]

\* WalletConnect before initPairing has run: useState('') at part_004 24
NoScreen == [via |-> "", url |-> <<>>, conn |-> 0, reused |-> FALSE]

\* generatePairingUrl (pairing.ts 69-95), setPairingUrl and reloadServer(): the
\* same three calls in initPairing 47-55 and in handleGenerateNew 106-132
Generate(via, relay, maxOps, maxTasks) ==
  /\ CanCall(maxOps, maxTasks)
  /\ ScreenOpen
  /\ nextSecret < MaxSecrets
  /\ LET secret == nextSecret + 1
         made == generatePairingUrl(store, walletPubkey, relay, secret)
         st == made.store
     IN  /\ nextSecret' = secret
         /\ store' = st
         /\ screen' = Shown(via, made.url, made.connection, FALSE)
         /\ ops' = ops + 1
         /\ UNCHANGED <<invoiceAmounts, relays, deliveries, published,
                        unsent, trail, calls, sends, rebinds, startCalls,
                        reads, sockets, held, codec, stopCalls>>
         /\ BeginStop(ops + 1, "reload", {}, tasks, st)
  /\ Settle(ops + 1, "reload")

\* WalletConnect.handleGenerateNew 106-132
GenerateNew(relay, maxOps, maxTasks) ==
  Generate("handleGenerateNew", relay, maxOps, maxTasks)

OpenPairingAnew(maxOps, maxTasks) ==
  Generate("initPairing", DEFAULT_RELAY, maxOps, maxTasks)

\* WalletConnect.initPairing 29-64, from getUnusedConnection() on: the URL of
\* the unused connection if the store has one, else a new pairing and reload
OpenPairing(maxOps, maxTasks) ==
  LET i == getUnusedConnection(store)
  IN  IF i # 0
      THEN /\ ScreenOpen
           /\ screen' = Shown("initPairing",
                              reconstructPairingUrl(walletPubkey, store[i]),
                              store[i], TRUE)
           /\ UNCHANGED <<store, invoiceAmounts, nextSecret, connections,
                          relays, running, tasks, handlers, deliveries, ops,
                          published, unsent, trail, calls, sends, rebinds,
                          revoked, startCalls, started, reads, wiring, codec,
                          stopCalls, isRunning>>
      ELSE OpenPairingAnew(maxOps, maxTasks)

\* WalletConnect.handleDisconnect 72-93: removeConnection, then reloadServer()
Disconnect(id, maxOps, maxTasks) ==
  /\ CanCall(maxOps, maxTasks)
  /\ ScreenOpen
  /\ \E c \in Range(store) : c.id = id
  /\ LET st == removeConnection(store, id)
         gone == { c.clientPubkey : c \in Range(store) \ Range(st) }
     IN  /\ store' = st
         /\ ops' = ops + 1
         /\ UNCHANGED <<invoiceAmounts, nextSecret, relays, deliveries,
                        published, unsent, trail, calls, sends, rebinds,
                        startCalls, reads, sockets, held, codec, stopCalls,
                 screen>>
         /\ BeginStop(ops + 1, "reload", gone, tasks, st)
  /\ Settle(ops + 1, "reload")

-----------------------------------------------------------------------------
(* server.ts: handleRequest *)

NoConnection == [id |-> 0, relay |-> "", permissions |-> {}]

\* `value` is the result of pay_invoice and make_invoice (sats), `balance`
\* the result of get_balance, a JavaScript number (see Numbers below),
\* `preimage` the result.preimage of pay_invoice
NoResponse ==
  [result_type |-> "", code |-> "", message |-> "", value |-> 0,
   balance |-> <<>>, preimage |-> <<>>]

Success(method, value) ==
  [result_type |-> method, code |-> "", message |-> "", value |-> value,
   balance |-> <<>>, preimage |-> <<>>]

Failure(method, code, message) ==
  [result_type |-> method, code |-> code, message |-> message, value |-> 0,
   balance |-> <<>>, preimage |-> <<>>]

HandledMethods == {"pay_invoice", "get_balance", "get_info", "make_invoice"}

KnownIn(list, key) ==
  \/ \E c \in Range(list) : c.clientPubkey = key
  \/ \E c \in Range(list) : ~c.lastUsed

\* The onevent callback of the subscription on relay r (196-211) calls
\* handleRequest, which runs to its first await: lines 223-251.
\* The place of a handleRequest call among the calls in progress, in the
\* order the onevent callbacks were called
Arrival(hs) == Cardinality(hs) + 1

\* A handleRequest call returns; the later ones move up
Leave(hs, h) ==
  { IF g.seq > h.seq THEN [g EXCEPT !.seq = @ - 1] ELSE g : g \in hs \ {h} }

Deliver(e, r, maxDeliveries) ==
  /\ r \in Range(relays)
  /\ ~\E t \in tasks : t.pc = "closing" /\ t.url = r   \* close() was called
  /\ e.pubkey \in SenderKeys
  /\ ~\E d \in deliveries : d.ev = e /\ d.via = r
  /\ Cardinality(deliveries) < maxDeliveries
  /\ Cardinality(handlers) < MaxInflight
  /\ LET HasKey(c) == c.clientPubkey = e.pubkey
         i == FindIndex(connections, HasKey)
         u == FindUnused(connections)
         New(conn, alias) ==
           [ev |-> e, via |-> r, conn |-> conn, alias |-> alias,
            pc |-> "decrypt", resp |-> NoResponse, encKey |-> 0,
            amountSats |-> 0, revoked |-> e.pubkey \in revoked,
            seq |-> Arrival(handlers)]
         Note(outcome, conn) ==
           [ev |-> e, via |-> r, outcome |-> outcome,
            conn |-> conn.id, relay |-> conn.relay,
            permitted |-> e.content.method \in conn.permissions,
            storeKnown |-> KnownIn(store, e.pubkey),
            memoryKnown |-> KnownIn(connections, e.pubkey)]
     IN  IF i # 0
         THEN /\ handlers' = handlers \cup {New(connections[i], i)}
              /\ deliveries' = deliveries \cup {Note("matched", connections[i])}
              /\ UNCHANGED <<store, connections, rebinds>>
         ELSE IF u # 0
         THEN LET st == updateConnectionPubkey(store, connections[u].id, e.pubkey)
                  bound == [connections[u] EXCEPT !.clientPubkey = e.pubkey]
                  \* unusedConnection.clientPubkey = event.pubkey is seen by
                  \* every call that holds the same object
                  Seen(h) == IF h.alias = u THEN [h EXCEPT !.conn = bound] ELSE h
                  IsIt(c) == c.id = connections[u].id
                  s == FindIndex(store, IsIt)
              IN  /\ store' = st
                  /\ connections' = st
                  /\ handlers' = Detach({ Seen(h) : h \in handlers })
                                   \cup {New(bound, 0)}
                  /\ deliveries' = deliveries \cup {Note("rebound", bound)}
                  /\ rebinds' = rebinds \cup
                       {[id |-> connections[u].id, key |-> e.pubkey,
                         ev |-> e, via |-> r,
                         used |-> s # 0 /\ store[s].lastUsed]}
         ELSE /\ deliveries' = deliveries \cup {Note("dropped", NoConnection)}
              /\ UNCHANGED <<store, connections, handlers, rebinds>>
  /\ UNCHANGED <<invoiceAmounts, nextSecret, relays, running, tasks, ops,
                 published, unsent, trail, calls, sends, revoked, startCalls,
                 started, reads, wiring, codec, stopCalls,
                 screen, isRunning>>

\* sendResponse up to its await on nip04.encrypt (line 496), which is handed
\* connection.clientPubkey as it is now
ToEncrypt(h, resp) ==
  [h EXCEPT !.pc = "encrypt", !.resp = resp, !.encKey = h.conn.clientPubkey]

RespondSuccessOnly(h, resp) ==
  IF resp.code = "" THEN {ToEncrypt(h, resp)} ELSE {}

\* handleRequest hands every response, result or error, to sendResponse
\* (lines 261 and 291): the call goes on in sendResponse
Respond(h, resp) == {ToEncrypt(h, resp)}

PermittedAlways(conn, method) == TRUE

\* connection.permissions.includes(request.method): line 260
Permitted(conn, method) == method \in conn.permissions

DecryptsAlways(c) == TRUE

\* nip04.decrypt and JSON.parse return without throwing: lines 251-252
Decrypts(c) == c.ok

ResponseRelayOfArrival(h) == h.via

\* this.relays.get(connection.relay): line 513
ResponseRelay(h) == h.conn.relay

\* handlePayInvoice lines 330-340: params.amount is taken as millisats
amountSatsOf(c) ==
  IF c.amount # 0 THEN c.amount \div 1000
  ELSE IF c.amount_msat # 0 THEN c.amount_msat \div 1000
  ELSE 0

\* handleMakeInvoice lines 448-452: params.amount is taken as sats
invoiceSatsOf(c) ==
  IF c.amount # 0 THEN c.amount
  ELSE IF c.amount_msat # 0 THEN c.amount_msat \div 1000
  ELSE 0

Call(h) ==
  [ev |-> h.ev, via |-> h.via, method |-> h.ev.content.method,
   conn |-> h.conn.id, revoked |-> h.revoked]

Send(h, amount, outcome) ==
  [ev |-> h.ev, via |-> h.via, amount |-> amount,
   address |-> h.ev.content.invoice, outcome |-> outcome]

\* The await on nip04.decrypt returns: lines 251-291 up to the next await
DecryptDone(h) ==
  /\ h \in handlers /\ h.pc = "decrypt"
  /\ LET c == h.ev.content
         rest == handlers \ {h}
     IN
     IF ~Decrypts(c)
     THEN /\ handlers' = Leave(handlers, h)
          /\ UNCHANGED <<store, invoiceAmounts, trail, calls, sends>>
     ELSE
     /\ store' = updateLastUsed(store, h.ev.pubkey)
     /\ IF ~Permitted(h.conn, c.method)
        THEN /\ handlers' = rest \cup
                  Respond(h, Failure("pay_invoice", "UNAUTHORIZED",
                                        "Method not permitted"))
             /\ UNCHANGED <<invoiceAmounts, trail, calls, sends>>
        ELSE IF c.method = "pay_invoice"
        THEN /\ calls' = calls \cup {Call(h)}
             /\ IF ~c.params
                \* const { invoice, amount } = params throws inside the try
                \* of handlePayInvoice (303), caught at 380
                THEN /\ handlers' = rest \cup
                          Respond(h, Failure("pay_invoice", "PAYMENT_FAILED",
                                                "Cannot destructure params"))
                     /\ UNCHANGED <<invoiceAmounts, trail, sends>>
                ELSE IF c.invoice = ""
                THEN /\ handlers' = rest \cup
                          Respond(h, Failure("pay_invoice", "OTHER",
                                                "Arkade address is required"))
                     /\ UNCHANGED <<invoiceAmounts, trail, sends>>
                ELSE IF ~isArkAddress(c.invoice)
                THEN /\ handlers' = rest \cup
                          Respond(h, Failure("pay_invoice", "OTHER",
                                                "Invalid Arkade address"))
                     /\ UNCHANGED <<invoiceAmounts, trail, sends>>
                ELSE IF amountSatsOf(c) > 0
                THEN /\ handlers' = rest \cup
                          {[h EXCEPT !.pc = "ledger",
                                     !.amountSats = amountSatsOf(c)]}
                     /\ sends' = sends \cup
                          {Send(h, amountSatsOf(c), "pending")}
                     /\ UNCHANGED <<invoiceAmounts, trail>>
                ELSE LET stored == retrievedAmount(invoiceAmounts, c.invoice) IN
                     /\ invoiceAmounts' = afterRetrieve(invoiceAmounts, c.invoice)
                     /\ trail' = Append(trail,
                          [kind |-> "retrieve", address |-> c.invoice,
                           amount |-> stored, ev |-> h.ev, via |-> h.via])
                     /\ IF stored # 0
                        THEN /\ handlers' = rest \cup
                                  {[h EXCEPT !.pc = "ledger",
                                             !.amountSats = stored]}
                             /\ sends' = sends \cup {Send(h, stored, "pending")}
                        ELSE /\ handlers' = rest \cup
                                  Respond(h, Failure("pay_invoice", "OTHER",
                                                        "Amount is required"))
                             /\ UNCHANGED sends
        ELSE IF c.method \in {"get_balance", "make_invoice"}
        THEN /\ calls' = calls \cup {Call(h)}
             /\ handlers' = rest \cup {[h EXCEPT !.pc = "ledger"]}
             /\ UNCHANGED <<invoiceAmounts, trail, sends>>
        ELSE IF c.method = "get_info"
        THEN /\ calls' = calls \cup {Call(h)}
             /\ handlers' = rest \cup Respond(h, Success("get_info", 0))
             /\ UNCHANGED <<invoiceAmounts, trail, sends>>
        ELSE /\ handlers' = rest \cup
                  Respond(h, Failure(c.method, "NOT_IMPLEMENTED",
                                        "Method not implemented"))
             /\ UNCHANGED <<invoiceAmounts, trail, calls, sends>>
  /\ UNCHANGED <<nextSecret, connections, relays, running, tasks, deliveries,
                 ops, published, unsent, rebinds, revoked, startCalls,
                 started, reads, wiring, codec, stopCalls,
                 screen, isRunning>>

-----------------------------------------------------------------------------
(* Numbers.  A JavaScript number holding a natural is an IEEE 754 double:     *)
(* 53 significant bits.  Naturals are written here as sequences of bits,      *)
(* least significant first, without leading zeros (<<>> is 0), so that        *)
(* values beyond the range of the model checker's integers keep their width.  *)

RECURSIVE Bits(_)
Bits(n) == IF n = 0 THEN <<>> ELSE <<n % 2>> \o Bits(n \div 2)

Zeros(k) == [i \in 1..k |-> 0]

\* hi * 2^k + lo, for lo < 2^k
Join(hi, lo, k) ==
  IF hi = <<>> THEN lo ELSE lo \o Zeros(k - Len(lo)) \o hi

RECURSIVE AddCarry(_, _, _)
AddCarry(a, b, c) ==
  IF a = <<>> /\ b = <<>> THEN (IF c = 1 THEN <<1>> ELSE <<>>)
  ELSE LET x == IF a = <<>> THEN 0 ELSE Head(a)
           y == IF b = <<>> THEN 0 ELSE Head(b)
           ta == IF a = <<>> THEN <<>> ELSE Tail(a)
           tb == IF b = <<>> THEN <<>> ELSE Tail(b)
           sum == x + y + c
       IN  <<sum % 2>> \o AddCarry(ta, tb, sum \div 2)

Plus(a, b) == AddCarry(a, b, 0)

\* The exact product of a natural and a small factor
RECURSIVE Times(_, _)
Times(a, n) ==
  IF n = 0 \/ a = <<>> THEN <<>>
  ELSE LET twice == <<0>> \o Times(a, n \div 2)
       IN  IF n % 2 = 1 THEN Plus(a, IF n \div 2 = 0 THEN <<>> ELSE twice)
           ELSE twice

SIGNIFICAND_BITS == 53

\* The double nearest to a natural: round to nearest, ties to even
ToDouble(a) ==
  IF Len(a) <= SIGNIFICAND_BITS THEN a
  ELSE LET drop == Len(a) - SIGNIFICAND_BITS
           kept == SubSeq(a, drop + 1, Len(a))
           guard == a[drop]
           sticky == \E i \in 1..(drop - 1) : a[i] = 1
           up == guard = 1 /\ (sticky \/ kept[1] = 1)
       IN  Zeros(drop) \o (IF up THEN Plus(kept, <<1>>) ELSE kept)

\* a * n in JavaScript: the exact product, rounded to a double
NumberTimes(a, n) == ToDouble(Times(a, n))

MAX_SAFE_INTEGER == [i \in 1..SIGNIFICAND_BITS |-> 1]    \* 2^53 - 1

\* The largest balance whose thousandfold is below 2^53: 9007199254740
\* = 8388 * 2^30 + 652835028
ExactLimit == Join(Bits(8388), Bits(652835028), 30)

\* 21 million coins in sats: 2100000000000000 = 1955777 * 2^30 + 436682752
MaxSupply == Join(Bits(1955777), Bits(436682752), 30)

\* Outcomes of the ledger (lib/asp): a result, or a thrown error
Balances ==
  { Bits(0), Bits(1), Bits(21), ExactLimit, Plus(ExactLimit, Bits(1)),
    MaxSupply, Plus(MaxSupply, Bits(1)), MAX_SAFE_INTEGER }

LedgerOutcomes(method) ==
  IF method = "pay_invoice"
  THEN { [kind |-> "ok", value |-> <<>>], [kind |-> "empty", value |-> <<>>],
         [kind |-> "throw", value |-> <<>>] }
  ELSE IF method = "get_balance"
  THEN { [kind |-> "ok", value |-> b] : b \in Balances }
         \cup { [kind |-> "throw", value |-> <<>>] }
  ELSE { [kind |-> "ok", value |-> <<>>], [kind |-> "throw", value |-> <<>>] }

MSATS_PER_SAT == 1000

handleGetBalancePaymentFailed(out) ==
  IF out.kind = "ok"
  THEN [Success("get_balance", 0)
          EXCEPT !.balance = NumberTimes(out.value, MSATS_PER_SAT)]
  ELSE Failure("get_balance", "PAYMENT_FAILED", "ledger error")

\* handleGetBalance, lines 397-417
handleGetBalance(out) ==
  IF out.kind = "ok"
  THEN [Success("get_balance", 0)
          EXCEPT !.balance = NumberTimes(out.value, MSATS_PER_SAT)]
  ELSE Failure("get_balance", "INTERNAL", "ledger error")

\* The transfer identifier sendOffChain returns for the send of one
\* handlePayInvoice call: line 361
TransferId(h) == <<h.ev, h.via>>

\* result: { preimage: txid }, lines 374-379
Paid(amountSats, txid) ==
  [Success("pay_invoice", amountSats) EXCEPT !.preimage = txid]

onPaymentThrows(address, amountSats, txid) == FALSE

\* The onPayment callback NWCProvider passes to the server (part_004 324-327)
\* logs one line, with address.substring(0, 16), and returns
onPayment(address, amountSats, txid) == TRUE

\* handlePayInvoice from the return of sendOffChain on: lines 363-389
afterSendOffChain(h, out) ==
  IF out.kind = "throw"
  THEN Failure("pay_invoice", "PAYMENT_FAILED", "ledger error")
  ELSE IF out.kind = "empty"
  THEN Failure("pay_invoice", "PAYMENT_FAILED", "Failed to send Arkade payment")
  ELSE IF ~onPayment(h.ev.content.invoice, h.amountSats, TransferId(h))
  THEN Failure("pay_invoice", "PAYMENT_FAILED", "callback error")
  ELSE Paid(h.amountSats, TransferId(h))

\* The await on the ledger returns: the rest of handlePayInvoice (363-389),
\* handleGetBalance (400-417) or handleMakeInvoice (446-487), then
\* sendResponse up to its await
LedgerDone(h, out) ==
  /\ h \in handlers /\ h.pc = "ledger"
  /\ out \in LedgerOutcomes(h.ev.content.method)
  /\ LET c == h.ev.content
         rest == handlers \ {h}
     IN
     IF c.method = "pay_invoice"
     THEN /\ sends' = (sends \ {Send(h, h.amountSats, "pending")})
                        \cup {Send(h, h.amountSats, out.kind)}
          /\ handlers' = rest \cup Respond(h, afterSendOffChain(h, out))
          /\ UNCHANGED <<invoiceAmounts, trail, reads>>
     ELSE IF c.method = "get_balance"
     THEN /\ handlers' = rest \cup Respond(h, handleGetBalance(out))
          /\ reads' = reads \cup
               {[ev |-> h.ev, via |-> h.via, ledger |-> out,
                 resp |-> handleGetBalance(out)]}
          /\ UNCHANGED <<invoiceAmounts, trail, sends>>
     ELSE /\ IF out.kind = "ok" /\ invoiceSatsOf(c) > 0
             THEN /\ invoiceAmounts' =
                       storeInvoiceAmount(invoiceAmounts, OwnAddress,
                                          invoiceSatsOf(c))
                  /\ trail' = Append(trail,
                       [kind |-> "store", address |-> OwnAddress,
                        amount |-> invoiceSatsOf(c), ev |-> h.ev, via |-> h.via])
             ELSE UNCHANGED <<invoiceAmounts, trail>>
          /\ UNCHANGED reads
          /\ handlers' = rest \cup
               Respond(h, IF out.kind = "ok"
                  THEN Success("make_invoice", invoiceSatsOf(c))
                  ELSE Failure("make_invoice", "INTERNAL", "ledger error"))
          /\ UNCHANGED sends
  /\ UNCHANGED <<store, nextSecret, connections, relays, running, tasks,
                 deliveries, ops, published, unsent, calls, rebinds, revoked,
                 startCalls, started, wiring, codec, stopCalls,
                 screen, isRunning>>

PublishOnArrivalElse(h, pool) ==
  IF h.conn.relay \in Range(pool) THEN {h.conn.relay}
  ELSE {h.via} \cap Range(pool)

\* const relay = this.relays.get(connection.relay); if (relay) publish: lines
\* 513-517.  Without a relay under that key nothing is published.
PublishOn(h, pool) == {ResponseRelay(h)} \cap Range(pool)

\* The await on nip04.encrypt returns: sendResponse lines 499-517.  The
\* relay accepts the event or the publish fails (caught at 518).
EncryptDone(h, accepted) ==
  /\ h \in handlers /\ h.pc = "encrypt"
  /\ handlers' = Leave(handlers, h)
  /\ LET responseEvent ==
           [relay |-> ResponseRelay(h), p |-> h.conn.clientPubkey, e |-> h.ev,
            encFor |-> h.encKey, resp |-> h.resp, via |-> h.via]
         targets == PublishOn(h, relays)
     IN  IF targets # {} /\ accepted
         THEN /\ published' = published \cup
                   { [responseEvent EXCEPT !.relay = r] : r \in targets }
              /\ UNCHANGED unsent
         ELSE /\ unsent' = unsent \cup
                   {[e |-> h.ev, via |-> h.via, resp |-> h.resp,
                     reason |-> IF targets # {}
                                THEN "publish failed" ELSE "relay not connected"]}
              /\ UNCHANGED published
  /\ UNCHANGED <<store, invoiceAmounts, nextSecret, connections, relays,
                 running, tasks, deliveries, ops, trail, calls, sends,
                 rebinds, revoked, startCalls, started, reads, wiring, codec, stopCalls,
                 screen, isRunning>>

-----------------------------------------------------------------------------
(* The specifications *)

DerivedKeys == { deriveClientKeypair(s) : s \in 1..MaxSecrets }

EventsOf(keys, payloads) == { Event(k, c, 1) : k \in keys, c \in payloads }

EventsAt(keys, payloads, times) ==
  { Event(k, c, t) : k \in keys, c \in payloads, t \in times }

NoParts ==
  [scheme |-> [text |-> <<>>, ok |-> FALSE],
   host   |-> [text |-> <<>>, ok |-> FALSE],
   query  |-> [text |-> <<>>, relay |-> FALSE, secret |-> FALSE]]

\* No call of pairing.ts on its own
NoCodec ==
  [op |-> "none", walletPubkey |-> <<>>, relay |-> <<>>, secret |-> <<>>,
   url |-> <<>>, built |-> FALSE, parsed |-> NoPairing, given |-> "",
   before |-> <<>>, made |-> <<>>, parts |-> NoParts]

InitWithCodec(st, c) ==
  /\ store = st
  /\ codec = c
  /\ invoiceAmounts = [a \in ArkAddresses |-> 0]
  /\ nextSecret = Cardinality(Secrets(st))
  /\ connections = <<>>
  /\ relays = <<>>
  /\ running = FALSE
  /\ tasks = {}
  /\ handlers = {}
  /\ deliveries = {}
  /\ ops = 0
  /\ published = {}
  /\ unsent = {}
  /\ trail = <<>>
  /\ calls = {}
  /\ sends = {}
  /\ rebinds = {}
  /\ revoked = {}
  /\ startCalls = {}
  /\ started = {}
  /\ reads = {}
  /\ stopped = {}
  /\ sockets = {}
  /\ held = {}
  /\ stopCalls = {}
  /\ screen = NoScreen
  /\ isRunning = FALSE

InitWith(st) == InitWithCodec(st, NoCodec)

(* Spec: pairing, removal and reload against concurrently handled requests.
   Relays accept every connect and close here. *)

Init == \E st \in InitialStores : InitWith(st)

Next ==
  \/ CallStart(MaxOps, MaxTasks)
  \/ CallStop(MaxOps, MaxTasks)
  \/ Refresh(MaxOps, MaxTasks)
  \/ GenerateNew(DEFAULT_RELAY, MaxOps, MaxTasks)
  \/ \E c \in Range(store) : Disconnect(c.id, MaxOps, MaxTasks)
  \/ \E t \in tasks : DialDone(t, TRUE)
  \/ \E t \in tasks : AnnounceDone(t, TRUE)
  \/ \E t \in tasks : CloseDone(t, TRUE)
  \/ \E e \in EventsOf(UserKeys \cup DerivedKeys, {GetInfo}),
        r \in Range(defaultRelays) : Deliver(e, r, MaxDeliveries)
  \/ \E h \in handlers : DecryptDone(h)
  \/ \E h \in handlers, accepted \in BOOLEAN : EncryptDone(h, accepted)

Spec == Init /\ [][Next]_vars

(* SpecRequests: requests of every kind of sender against a started server
   whose relays may refuse the connection. *)

RequestStores ==
  { <<LegacyConnection>>,
    <<Pending(1)>>,
    <<Paired(1, 1)>>,
    <<LegacyConnection, Pending(1)>> }

RequestKeys == UserKeys \cup {LegacyKey, deriveClientKeypair(1)}

RequestPayloads == {Pay(2000), GetInfo, Garbled}

InitRequests == \E st \in RequestStores : InitWith(st)

NextRequests ==
  \/ CallStart(MaxStarts, MaxTasks)
  \/ \E t \in tasks, ok \in BOOLEAN : DialDone(t, ok)
  \/ \E t \in tasks : AnnounceDone(t, TRUE)
  \/ \E e \in EventsOf(RequestKeys, RequestPayloads),
        r \in Range(defaultRelays) : Deliver(e, r, MaxDeliveries)
  \/ \E h \in handlers : DecryptDone(h)
  \/ \E h \in handlers : \E out \in LedgerOutcomes(h.ev.content.method) :
        LedgerDone(h, out)
  \/ \E h \in handlers, accepted \in BOOLEAN : EncryptDone(h, accepted)

SpecRequests == InitRequests /\ [][NextRequests]_vars

(* SpecInvoice: make_invoice and pay_invoice requests of one paired sender,
   in any order and overlap. *)

InvoicePayloads ==
  {MakeInvoice(InvoiceAmount), MakeInvoice(InvoiceAmount + 1), Pay(0)}

InvoiceTimes == {1, 2}

InitInvoice == InitWith(<<Paired(1, 1)>>)

NextInvoice ==
  \/ CallStart(MaxStarts, MaxTasks)
  \/ \E t \in tasks : DialDone(t, TRUE)
  \/ \E t \in tasks : AnnounceDone(t, TRUE)
  \/ \E e \in EventsAt(UserKeys, InvoicePayloads, InvoiceTimes),
        r \in Range(defaultRelays) : Deliver(e, r, MaxInvoiceDeliveries)
  \/ \E h \in handlers : DecryptDone(h)
  \/ \E h \in handlers : \E out \in LedgerOutcomes(h.ev.content.method) :
        LedgerDone(h, out)
  \/ \E h \in handlers, accepted \in BOOLEAN : EncryptDone(h, accepted)

SpecInvoice == InitInvoice /\ [][NextInvoice]_vars

(* SpecLifecycle: start, stop, reload, pairing and removal, with relays that
   may refuse a connection, fail to close or reject the announcement; the
   store may hold a pairing made for a relay outside the baseline. *)

OnOtherRelay(secret) ==
  createConnection(deriveClientKeypair(secret), secret, OtherRelay)

LifecycleStores == { <<>>, <<OnOtherRelay(1)>> }

InitLifecycle == \E st \in LifecycleStores : InitWith(st)

NextLifecycle ==
  \/ CallStart(MaxLifecycleOps, MaxTasks)
  \/ CallStop(MaxLifecycleOps, MaxTasks)
  \/ Refresh(MaxLifecycleOps, MaxTasks)
  \/ GenerateNew(DEFAULT_RELAY, MaxLifecycleOps, MaxTasks)
  \/ \E c \in Range(store) : Disconnect(c.id, MaxLifecycleOps, MaxTasks)
  \/ \E t \in tasks, ok \in BOOLEAN : DialDone(t, ok)
  \/ \E t \in tasks, ok \in BOOLEAN : AnnounceDone(t, ok)
  \/ \E t \in tasks, ok \in BOOLEAN : CloseDone(t, ok)

SpecLifecycle == InitLifecycle /\ [][NextLifecycle]_vars

(* SpecOverlap: start, stop and reload called while an earlier call is still
   waiting for a relay; relays may refuse a connection or fail to close. *)

InitOverlap == InitWith(<<>>)

NextOverlap ==
  \/ CallStart(MaxOverlapOps, MaxOverlap)
  \/ CallStop(MaxOverlapOps, MaxOverlap)
  \/ Refresh(MaxOverlapOps, MaxOverlap)
  \/ \E t \in tasks, ok \in BOOLEAN : DialDone(t, ok)
  \/ \E t \in tasks : AnnounceDone(t, TRUE)
  \/ \E t \in tasks, ok \in BOOLEAN : CloseDone(t, ok)

SpecOverlap == InitOverlap /\ [][NextOverlap]_vars

(* SpecPairing: pairing.ts on its own.  generatePairingUrl on each store,
   wallet key and relay; the URL formatted from each key, relay and secret
   and parsed back; parsePairingUrl on URLs put together from a scheme, a
   host and a query that are each present, absent or broken. *)

\* A relay URL with a path, a query and characters that need escaping
LongRelay ==
  << "w", "s", "s", ":", "/", "/", "n", "o", "s", ".", "l", "o", "l", "/",
    "a", "?", "b", "=", "c", "&", "d", " ", "e", "+", "f", "#", "%" >>

RelayStrings == {Spell(DEFAULT_RELAY), Spell(OtherRelay), LongRelay}

SecretStrings == {hexEncode(1), hexEncode(2)}

PairingArgs ==
  { [NoCodec EXCEPT !.op = "args", !.walletPubkey = k, !.relay = r,
                    !.secret = s] :
      k \in WalletPubkeys, r \in RelayStrings, s \in SecretStrings }

\* `ok`: the URL parser accepts the part
Schemes ==
  { [text |-> NWC_SCHEME, ok |-> TRUE],
    [text |-> HTTPS_SCHEME, ok |-> TRUE],
    [text |-> <<"n", "o", "s", "t", "r", "+", "w", "a", "l", "l", "e", "t", "c", "o", "n", "n", "e", "c", "t", ":">>, ok |-> TRUE],
    [text |-> <<>>, ok |-> FALSE],
    [text |-> <<"/", "/">>, ok |-> FALSE] }

Hosts ==
  { [text |-> KeyA, ok |-> TRUE],
    [text |-> <<>>, ok |-> FALSE],
    [text |-> <<"a", " ", "b">>, ok |-> FALSE],
    [text |-> <<"a", "b", ":", "p">>, ok |-> FALSE] }

\* `relay`, `secret`: the query has a value, not empty, under that name
Queries ==
  { [text |-> <<"?">> \o paramsToString(<< <<RELAY_NAME, Spell(Nos)>>,
                                           <<SECRET_NAME, hexEncode(1)>> >>),
     relay |-> TRUE, secret |-> TRUE],
    [text |-> <<"?">> \o paramsToString(<< <<SECRET_NAME, hexEncode(1)>>,
                                           <<RELAY_NAME, Spell(Nos)>> >>),
     relay |-> TRUE, secret |-> TRUE],
    [text |-> <<"?">> \o paramsToString(<< <<RELAY_NAME, Spell(Nos)>> >>),
     relay |-> TRUE, secret |-> FALSE],
    [text |-> <<"?">> \o paramsToString(<< <<SECRET_NAME, hexEncode(1)>> >>),
     relay |-> FALSE, secret |-> TRUE],
    [text |-> <<"?">> \o paramsToString(<< <<RELAY_NAME, <<>> >>,
                                           <<SECRET_NAME, hexEncode(1)>> >>),
     relay |-> FALSE, secret |-> TRUE],
    [text |-> <<"?">> \o paramsToString(<< <<RELAY_NAME, Spell(Nos)>> >>) \o
              <<"&">> \o SECRET_NAME,
     relay |-> TRUE, secret |-> FALSE],
    [text |-> <<"#">> \o paramsToString(<< <<RELAY_NAME, Spell(Nos)>>,
                                           <<SECRET_NAME, hexEncode(1)>> >>),
     relay |-> FALSE, secret |-> FALSE],
    [text |-> <<"?">>, relay |-> FALSE, secret |-> FALSE],
    [text |-> <<>>, relay |-> FALSE, secret |-> FALSE] }

RawUrls ==
  { [NoCodec EXCEPT !.op = "url", !.url = sch.text \o h.text \o q.text,
                    !.parts = [scheme |-> sch, host |-> h, query |-> q]] :
      sch \in Schemes, h \in Hosts, q \in Queries }

InitPairing ==
  \E st \in InitialStores, c \in PairingArgs \cup RawUrls : InitWithCodec(st, c)

\* The server is not part of these runs
server ==
  <<invoiceAmounts, connections, relays, running, tasks, handlers, deliveries,
    ops, published, unsent, trail, calls, sends, rebinds, revoked, startCalls,
    started, reads, wiring, stopCalls, screen, isRunning>>

\* The URL of generatePairingUrl / reconstructPairingUrl from its three parts
FormatUrl ==
  /\ codec.op = "args"
  /\ codec' = [codec EXCEPT
                 !.op = "built", !.built = TRUE,
                 !.url = formatPairingUrl(codec.walletPubkey, codec.relay,
                                          codec.secret)]
  /\ UNCHANGED <<store, nextSecret, server>>

\* parsePairingUrl on the URL at hand
ParseUrl ==
  /\ codec.op \in {"built", "url", "generated"}
  /\ codec' = [codec EXCEPT !.op = "parsed",
                            !.parsed = parsePairingUrl(codec.url)]
  /\ UNCHANGED <<store, nextSecret, server>>

\* generatePairingUrl(walletPrivateKey, relay)
GeneratePairing(relay) ==
  /\ codec.op = "args"
  /\ nextSecret < MaxSecrets
  /\ LET secret == nextSecret + 1
         made == generatePairingUrl(store, codec.walletPubkey, relay, secret)
     IN  /\ nextSecret' = secret
         /\ store' = made.store
         /\ codec' = [codec EXCEPT !.op = "generated", !.url = made.url,
                                   !.given = relay, !.before = store,
                                   !.made = <<made.connection>>]
  /\ UNCHANGED server

NextPairing ==
  \/ FormatUrl
  \/ ParseUrl
  \/ \E relay \in {DEFAULT_RELAY, OtherRelay} : GeneratePairing(relay)

SpecPairing == InitPairing /\ [][NextPairing]_vars

(* SpecScreen: the wallet connect screen is opened, pairings are generated
   and removed, while requests arrive and are handled. *)

NextScreen ==
  \/ CallStart(MaxOps, MaxTasks)
  \/ OpenPairing(MaxOps, MaxTasks)
  \/ GenerateNew(DEFAULT_RELAY, MaxOps, MaxTasks)
  \/ \E c \in Range(store) : Disconnect(c.id, MaxOps, MaxTasks)
  \/ \E t \in tasks : DialDone(t, TRUE)
  \/ \E t \in tasks : AnnounceDone(t, TRUE)
  \/ \E t \in tasks : CloseDone(t, TRUE)
  \/ \E e \in EventsOf(UserKeys \cup DerivedKeys, {GetInfo}),
        r \in Range(defaultRelays) : Deliver(e, r, MaxDeliveries)
  \/ \E h \in handlers : DecryptDone(h)
  \/ \E h \in handlers, accepted \in BOOLEAN : EncryptDone(h, accepted)

SpecScreen == Init /\ [][NextScreen]_vars

(* SpecStorage: the functions of storage.ts on the connection list, called in
   any order with arguments that match a stored connection or none. *)

StorageStores == InitialStores \cup {<<LegacyConnection, Pending(1)>>}

InitStorage == \E st \in StorageStores : InitWith(st)

\* Keys, ids and secrets a caller may pass
StorageKeys == UserKeys \cup {LegacyKey} \cup DerivedKeys
StorageIds == {IdBase} \cup { randomUUID(n) : n \in 1..MaxSecrets }
StorageNames == {"", "Alby"}

StorageAdd(relay) ==
  /\ nextSecret < MaxSecrets
  /\ nextSecret' = nextSecret + 1
  /\ store' = addConnection(store,
                 createConnection(deriveClientKeypair(nextSecret + 1),
                                  nextSecret + 1, relay))
  /\ UNCHANGED <<server, codec>>

StorageRemove(idOrPubkey) ==
  /\ store' = removeConnection(store, idOrPubkey)
  /\ UNCHANGED <<nextSecret, server, codec>>

StorageTouch(clientPubkey) ==
  /\ store' = updateLastUsed(store, clientPubkey)
  /\ UNCHANGED <<nextSecret, server, codec>>

StorageBind(idOrSecret, clientPubkey) ==
  /\ store' = updateConnectionPubkey(store, idOrSecret, clientPubkey)
  /\ UNCHANGED <<nextSecret, server, codec>>

StorageRename(idOrPubkey, name) ==
  /\ store' = updateConnectionName(store, idOrPubkey, name)
  /\ UNCHANGED <<nextSecret, server, codec>>

NextStorage ==
  \/ \E relay \in {DEFAULT_RELAY, OtherRelay} : StorageAdd(relay)
  \/ \E x \in StorageIds \cup StorageKeys : StorageRemove(x)
  \/ \E k \in StorageKeys : StorageTouch(k)
  \/ \E x \in StorageIds \cup (0..MaxSecrets), k \in UserKeys \cup {LegacyKey} :
        StorageBind(x, k)
  \/ \E x \in StorageIds \cup StorageKeys, name \in StorageNames :
        StorageRename(x, name)

SpecStorage == InitStorage /\ [][NextStorage]_vars

(* SpecMethods: one paired sender holding every permission sends requests of
   every shape: methods the server does not handle, pay requests with a
   missing, empty or foreign destination and with amounts of each kind,
   balance and invoice requests; each ledger call may succeed or throw. *)

OtherAddress == "bc1qother"    \* a destination isArkAddress rejects

MethodPayloads ==
  { Request("lookup_invoice"), Request("list_transactions"),
    Request("get_balance"), MakeInvoice(InvoiceAmount),
    PayNoParams, PayTo("", 2000), PayTo(OtherAddress, 2000),
    Pay(0), Pay(500), Pay(2000) }

InitMethods == InitWith(<<Paired(1, 1)>>)

NextMethods ==
  \/ CallStart(MaxStarts, MaxTasks)
  \/ \E t \in tasks : DialDone(t, TRUE)
  \/ \E t \in tasks : AnnounceDone(t, TRUE)
  \/ \E e \in EventsOf(UserKeys, MethodPayloads),
        r \in Range(defaultRelays) : Deliver(e, r, MaxDeliveries)
  \/ \E h \in handlers : DecryptDone(h)
  \/ \E h \in handlers : \E out \in LedgerOutcomes(h.ev.content.method) :
        LedgerDone(h, out)
  \/ \E h \in handlers, accepted \in BOOLEAN : EncryptDone(h, accepted)

SpecMethods == InitMethods /\ [][NextMethods]_vars

-----------------------------------------------------------------------------
(* Claims checked under Spec *)

\* C2: in every reachable state at most one stored Connection has any given
\* counterparty key (clientPubkey).
C2_UniqueCounterpartyKey ==
  \A i, j \in 1..Len(store) :
     i # j => store[i].clientPubkey # store[j].clientPubkey

\* C3: once a request has been processed on a connection (its stored record
\* has lastUsed), no request from an unknown sender rebinds that connection.
C3_NoRebindAfterUse ==
  \A b \in rebinds : ~b.used

\* C4: a request whose sender key matches no stored Connection, while no
\* stored Connection is unused, is dropped: no rebind, no handler, no publish.
C4_UnknownSenderDropped ==
  \A d \in deliveries : ~d.storeKnown => d.outcome = "dropped"

\* C10: after a connection was removed and the reload that follows completed,
\* a request from the removed connection's key invokes no MethodHandler.
C10_RevokedKeyInvokesNothing ==
  \A c \in calls : ~c.revoked

-----------------------------------------------------------------------------
(* Claims checked under SpecRequests *)

PublishedFor(d) == { p \in published : p.e = d.ev /\ p.via = d.via }

UnsentFor(d) == { u \in unsent : u.e = d.ev /\ u.via = d.via }

Finished(d) == ~\E h \in handlers : h.ev = d.ev /\ h.via = d.via

Resolved(d) == d.outcome # "dropped"

\* C1: two deliveries of the same request event that resolve to the same
\* connection invoke the pay handler once, and the ledger's send succeeds at
\* most once for that event.
C1_PayOncePerEvent ==
  /\ \A c1, c2 \in calls :
        (c1.method = "pay_invoice" /\ c1.ev = c2.ev /\ c1.conn = c2.conn)
          => c1 = c2
  /\ \A s1, s2 \in sends :
        (s1.ev = s2.ev /\ s1.outcome = "ok" /\ s2.outcome = "ok") => s1 = s2

IsUnauthorizedPay(d) ==
  Resolved(d) /\ d.ev.content.ok /\ d.ev.content.method = "pay_invoice"
    /\ ~d.permitted

\* C5 (as the code has it): each delivery of a pay request that resolves to
\* a connection whose permissions exclude pay_invoice invokes no handler and
\* no ledger send, and once handled has produced exactly one response, with
\* error code UNAUTHORIZED, which is either published or was not sent
\* because the connection's relay was absent or refused it.
C5_UnauthorizedPay ==
  \A d \in deliveries : IsUnauthorizedPay(d) =>
     /\ ~\E c \in calls : c.ev = d.ev /\ c.via = d.via
     /\ ~\E s \in sends : s.ev = d.ev /\ s.via = d.via
     /\ \A p \in PublishedFor(d) : p.resp.code = "UNAUTHORIZED"
     /\ \A u \in UnsentFor(d) : u.resp.code = "UNAUTHORIZED"
     /\ Cardinality(PublishedFor(d)) + Cardinality(UnsentFor(d))
          = (IF Finished(d) THEN 1 ELSE 0)

\* C5 as stated: a handled pay request from a connection without the pay
\* permission has exactly one published response event
C5_ExactlyOnePublished ==
  \A d \in deliveries : (IsUnauthorizedPay(d) /\ Finished(d)) =>
     Cardinality({ p \in published : p.e = d.ev }) = 1

C5_Witness ==
  \E d \in deliveries :
     /\ IsUnauthorizedPay(d) /\ Finished(d)
     /\ \E p \in PublishedFor(d) : p.resp.code = "UNAUTHORIZED"

IsAnswerable(d) == Resolved(d) /\ d.ev.content.ok /\ Finished(d)

\* C7 (as the code has it): every delivery that resolved to a connection and
\* decrypted has, once handled, exactly one response, whatever the method
\* and the ledger outcome; the response is published when the connection's
\* relay is connected at that moment and accepts it, and is otherwise not
\* sent.
C7_OneResponsePerRequest ==
  \A d \in deliveries : IsAnswerable(d) =>
     /\ Cardinality(PublishedFor(d)) + Cardinality(UnsentFor(d)) = 1
     /\ \A p \in PublishedFor(d) : p.relay = d.relay

\* C7 as stated: a resolved, decrypted and handled request has a published
\* response
C7_AlwaysPublished ==
  \A d \in deliveries : IsAnswerable(d) => PublishedFor(d) # {}

C7_Witness ==
  \E d \in deliveries :
     /\ IsAnswerable(d)
     /\ \E p \in PublishedFor(d) : p.resp.code = "PAYMENT_FAILED"

C9_AddressedToSender ==
  \A p \in published : p.p = p.e.pubkey /\ p.encFor = p.e.pubkey

-----------------------------------------------------------------------------
(* Claims checked under SpecInvoice *)

\* What the table holds for the address of trail[i] just before that step:
\* the amount of the latest store for it, unless a retrieve came after
LastStored(i) ==
  LET prior == { j \in 1..(i-1) : trail[j].address = trail[i].address }
  IN  IF prior = {} THEN 0
      ELSE LET j == CHOOSE k \in prior : \A m \in prior : m <= k
           IN  IF trail[j].kind = "store" THEN trail[j].amount ELSE 0

ResponsesTo(ev, via) ==
  { p.resp : p \in { q \in published : q.e = ev /\ q.via = via } }
    \cup { u.resp : u \in { v \in unsent : v.e = ev /\ v.via = via } }

\* C6: a pay without amount to an address finds the amount A that the latest
\* make_invoice stored for it, asks the ledger to send exactly A and answers
\* with success when the ledger sends; the amount is consumed by that pay, so
\* that a further pay without amount finds nothing, makes no ledger call and
\* answers with code OTHER, "Amount is required".
C6_StoredAmountConsumedOnce ==
  \A i \in 1..Len(trail) : trail[i].kind = "retrieve" =>
     LET t == trail[i]
         A == LastStored(i)
         asked == { s \in sends : s.ev = t.ev /\ s.via = t.via }
     IN  /\ t.amount = A
         /\ A # 0 =>
              /\ Cardinality(asked) = 1
              /\ \A s \in asked :
                    /\ s.amount = A /\ s.address = t.address
                    /\ s.outcome = "ok" =>
                         \A r \in ResponsesTo(t.ev, t.via) :
                            r = Paid(A, <<t.ev, t.via>>)
                    /\ s.outcome \in {"empty", "throw"} =>
                         \A r \in ResponsesTo(t.ev, t.via) :
                            r.code = "PAYMENT_FAILED"
         /\ A = 0 =>
              /\ asked = {}
              /\ \A r \in ResponsesTo(t.ev, t.via) :
                    r = Failure("pay_invoice", "OTHER", "Amount is required")

C6_Witness ==
  \E i, j, k \in 1..Len(trail) :
     /\ i < j /\ j < k
     /\ trail[i].kind = "store" /\ trail[i].amount = InvoiceAmount
     /\ trail[j].kind = "retrieve" /\ trail[j].amount = InvoiceAmount
     /\ trail[k].kind = "retrieve" /\ trail[k].amount = 0
     /\ Paid(InvoiceAmount, <<trail[j].ev, trail[j].via>>)
          \in ResponsesTo(trail[j].ev, trail[j].via)
     /\ \E s \in sends : s.ev = trail[j].ev /\ s.via = trail[j].via
                            /\ s.amount = InvoiceAmount /\ s.outcome = "ok"
     /\ Failure("pay_invoice", "OTHER", "Amount is required")
          \in ResponsesTo(trail[k].ev, trail[k].via)

-----------------------------------------------------------------------------
(* Claims checked under SpecMethods *)

\* C12: a resolved and decrypted request whose method is none of
\* pay_invoice, get_balance, get_info, make_invoice is answered with error
\* code NOT_IMPLEMENTED, never dropped.
C12_UnknownMethodNotImplemented ==
  \A d \in deliveries :
     (IsAnswerable(d) /\ d.ev.content.method \notin HandledMethods) =>
        /\ ResponsesTo(d.ev, d.via) # {}
        /\ \A r \in ResponsesTo(d.ev, d.via) : r.code = "NOT_IMPLEMENTED"

SendsFor(d) == { s \in sends : s.ev = d.ev /\ s.via = d.via }

IsPermittedPay(d) ==
  IsAnswerable(d) /\ d.ev.content.method = "pay_invoice" /\ d.permitted

\* C15: pay answers OTHER without a ledger call when the destination is
\* missing, when it is not a valid address and when no amount is given and
\* none is stored; it answers PAYMENT_FAILED exactly when the ledger's send
\* failed.
C15_PayErrorCodes ==
  \A d \in deliveries : IsPermittedPay(d) =>
     LET c == d.ev.content
         rs == ResponsesTo(d.ev, d.via)
         Other == SendsFor(d) = {} /\ \A r \in rs : r.code = "OTHER"
     IN  /\ (~c.params \/ c.invoice = "") => Other
         /\ (c.params /\ c.invoice # "" /\ ~isArkAddress(c.invoice)) => Other
         /\ (c.params /\ isArkAddress(c.invoice) /\ c.amount = 0
               /\ c.amount_msat = 0 /\ invoiceAmounts[c.invoice] = 0
               /\ trail = <<>>) => Other
         /\ \A r \in rs :
               r.code = "PAYMENT_FAILED"
                 <=> \E s \in SendsFor(d) : s.outcome \in {"empty", "throw"}

\* C16: get_balance answers with the balance the ledger reported multiplied
\* by 1000, exactly, for every balance; when the ledger fails it answers
\* with error code INTERNAL.
C16_BalanceTimesThousand ==
  \A r \in reads :
     /\ r.ledger.kind = "ok" =>
          /\ r.resp.code = ""
          /\ r.resp.balance = Times(r.ledger.value, MSATS_PER_SAT)
     /\ r.ledger.kind = "throw" => r.resp.code = "INTERNAL"

-----------------------------------------------------------------------------
(* Further claims checked under SpecRequests *)

\* C13: a request whose content fails to decrypt or to parse invokes no
\* method handler and produces no response, published or not.
C13_UndecryptableIsSilent ==
  \A d \in deliveries : ~d.ev.content.ok =>
     /\ ~\E c \in calls : c.ev = d.ev /\ c.via = d.via
     /\ SendsFor(d) = {}
     /\ PublishedFor(d) = {} /\ UnsentFor(d) = {}

C13_Witness ==
  \E d \in deliveries :
     ~d.ev.content.ok /\ Resolved(d) /\ Finished(d) /\ published # {}

\* C14: an unused connection is bound to an unknown sender's key only by a
\* request that decrypts: a request that fails to decrypt rebinds nothing.
C14_RebindOnlyAfterDecrypt ==
  \A b \in rebinds : b.ev.content.ok

\* C17: a pay_invoice request with a valid address and params.amount = N > 0
\* asks the ledger to send N sats.
C17_AmountIsSats ==
  \A s \in sends : s.ev.content.amount > 0 => s.amount = s.ev.content.amount

-----------------------------------------------------------------------------
(* Claims checked under SpecLifecycle *)

\* The relay set a start computes from a connection list
WantedRelays(conns) ==
  Range(defaultRelays) \cup { c.relay : c \in Range(conns) }

\* C11: when the start of a reload has gone through its relays, the
\* connection list is the store as that start read it and, when every
\* connect of that start succeeded, the pool is exactly the baseline relays
\* and the relays of the stored connections.
C11_ReloadExactlyStore ==
  \A r \in started : (r.op = "reload" /\ r.failed = {}) =>
     /\ r.loaded = r.stored
     /\ Range(r.pool) = WantedRelays(r.stored)

\* C18: a start() called while the server is running changes nothing: the
\* relay pool, the connection list, the running flag, the calls in progress
\* and the announcements made are as before.
C18_StartWhileRunningIsNoOp ==
  \A c \in startCalls : c.wasRunning => c.after = c.before

C18_Witness ==
  \E c \in startCalls : c.wasRunning /\ c.before.relays # <<>>

\* C19: whichever connects fail, start goes through every relay of its set,
\* attempting each one the pool does not hold already; it is running when
\* the loop is over, then makes the announcement, and the outcome of the
\* announcement, accepted or not, leaves the running flag as it was.
C19_StartSurvivesFailures ==
  \A r \in started :
     /\ r.attempted \cup r.skipped = WantedRelays(r.loaded)
     /\ r.attempted \cap r.skipped = {}
     /\ r.failed \subseteq r.attempted
     /\ r.info.tags = r.pool
     /\ r.running
     /\ r.kept

C19_Witness ==
  \E r, q \in started :
     /\ r.settled /\ r.attempted = WantedRelays(r.loaded)
     /\ r.failed = r.attempted /\ r.running
     /\ q.settled /\ q.failed # {} /\ ~q.broadcastOk /\ q.running /\ q.kept

\* C20: every start that gets to running hands the announcement to every
\* relay of the pool, with one relay tag per relay of the pool, whether or
\* not the store holds a connection.
C20_AnnouncedOnEveryRelay ==
  \A r \in started :
     /\ r.info.targets = Range(r.pool)
     /\ Range(r.info.tags) = Range(r.pool)
     /\ Len(r.info.tags) = Cardinality(Range(r.pool))

C20_Witness ==
  \E r \in started :
     r.loaded = <<>> /\ r.settled /\ Cardinality(r.info.targets) > 1

\* C21: a stop() on a running server leaves no relay of the pool without a
\* close attempt, whichever closes fail (a relay it did not attempt is one
\* that is no longer in the pool), and the server is stopped when it returns.
C21_StopClosesEveryRelay ==
  \A r \in stopped :
     /\ \A u \in r.pool0 : u \in r.attempted \/ u \notin Range(r.poolEnd)
     /\ r.failed \subseteq r.attempted
     /\ ~r.running

C21_Witness ==
  \E r \in stopped :
     /\ r.op = "stop" /\ r.attempted = r.pool0 /\ Cardinality(r.pool0) > 2
     /\ r.failed # {} /\ r.failed # r.attempted
     /\ ~running

-----------------------------------------------------------------------------
(* Claims checked under SpecPairing *)

\* C22: generatePairingUrl adds exactly one connection to the store, after
\* the ones that were there, which are left as they were; the new connection
\* has a fresh secret and id, the key derived from that secret, no lastUsed
\* and the relay given; the URL returned starts with the scheme and the
\* wallet's key and carries that relay and that secret.
C22_GenerateAddsOneConnection ==
  codec.made # <<>> =>
    LET c == codec.made[1] IN
    /\ store = Append(codec.before, c)
    /\ c.secret \notin Secrets(codec.before)
    /\ \A b \in Range(codec.before) : b.id # c.id
    /\ c.clientPubkey = deriveClientKeypair(c.secret)
    /\ ~c.lastUsed
    /\ c.relay = codec.given
    /\ Upto(codec.url, Len(NWC_SCHEME) + Len(codec.walletPubkey) + 1) =
         NWC_SCHEME \o codec.walletPubkey \o <<"?">>
    /\ IndexOf(codec.url,
               RELAY_NAME \o <<"=">> \o urlencode(Spell(c.relay))) > 0
    /\ IndexOf(codec.url, SECRET_NAME \o <<"=">> \o hexEncode(c.secret)) > 0

C22_Witness ==
  /\ codec.made # <<>> /\ codec.given = OtherRelay
  /\ Len(codec.before) > 1 /\ Len(store) = Len(codec.before) + 1

\* C23: parsing the URL formatted from a key, a relay and a secret gives
\* back that key, that relay and that secret.
C23_RoundTrip ==
  (codec.op = "parsed" /\ codec.built) =>
    codec.parsed = [null |-> FALSE, walletPubkey |-> codec.walletPubkey,
                    relay |-> codec.relay, secret |-> codec.secret]

\* C24: parsePairingUrl has no result for a URL whose scheme or host the URL
\* parser rejects, or that lacks the host, the relay or the secret; a result
\* it gives has all three, none empty.
C24_IncompleteUrlRejected ==
  codec.op = "parsed" =>
    /\ ( /\ codec.parts # NoParts
         /\ \/ ~codec.parts.scheme.ok \/ ~codec.parts.host.ok
            \/ ~codec.parts.query.relay \/ ~codec.parts.query.secret )
       => codec.parsed.null
    /\ ~codec.parsed.null =>
         /\ codec.parsed.walletPubkey # <<>>
         /\ codec.parsed.relay # <<>>
         /\ codec.parsed.secret # <<>>

C24_Witness ==
  /\ codec.op = "parsed" /\ codec.parsed.null
  /\ codec.parts.scheme.text = NWC_SCHEME /\ codec.parts.host.ok
  /\ codec.parts.query.relay /\ ~codec.parts.query.secret

\* C25: when stop() was called while a start() was inside its connect loop and
\* both calls have returned (no call made since), the server is not running
\* and the pool is empty.
C25_StopCancelsStart ==
  \A c \in stopCalls :
     (c.connecting # {} /\ ops = c.n /\ tasks = {})
       => (~running /\ relays = <<>>)

\* C26: at no time are two relay connections, each with its request
\* subscription, open for one relay URL.
C26_OneConnectionPerRelay ==
  \A a \in sockets, b \in sockets : a.url = b.url => a = b

\* C27: connectToRelay for a relay URL that is a key of the pool opens no
\* connection: a start() only ever begins to wait for Relay.connect(u) with u
\* absent from the pool; and a start() that found every relay in the pool
\* leaves the pool, its connections and the open connections as they were.
C27_ConnectIdempotent ==
  [][ /\ \A t \in tasks' \ tasks :
            t.pc = "dialing" => t.url \notin Range(relays')
      /\ \A r \in started' \ started :
            (r.op = "start" /\ r.attempted = {} /\ r.skipped # {})
              => UNCHANGED <<relays, sockets, held>> ]_vars

C27_Witness ==
  \E r \in started :
     /\ r.op = "start" /\ r.attempted = {} /\ r.skipped # {}
     /\ r.skipped = Range(r.pool) /\ r.settled
     /\ \A u \in r.skipped : \E h \in held : h.url = u /\ h.by < r.n

\* C28: when sendResponse comes to publish and the pool has no relay under the
\* connection's relay URL, the call ends there: nothing is published, on that
\* relay or another, the response is recorded as unsent and is never
\* published later, and the store, the invoice amounts and the payments made
\* stay as the handler left them.
C28_ResponseDropped ==
  [][ /\ \A h \in handlers :
            (/\ h.pc = "encrypt"
             /\ h.conn.relay \notin Range(relays)
             /\ ~\E g \in handlers' : g.ev = h.ev /\ g.via = h.via)
            => /\ published' = published
               /\ \E u \in unsent' \ unsent :
                     u.e = h.ev /\ u.via = h.via /\ u.resp = h.resp
               /\ UNCHANGED <<store, invoiceAmounts, sends, calls, trail>>
      /\ \A u \in unsent' :
            u.reason = "relay not connected"
              => ~\E q \in published' : q.e = u.e /\ q.via = u.via ]_vars

\* A payment was made and its result could not be sent: the relay of the
\* connection is not in the pool, the relay the request came by is.
C28_Witness ==
  \E u \in unsent :
     /\ u.reason = "relay not connected"
     /\ u.resp.code = ""
     /\ u.via \in Range(relays)
     /\ \E x \in sends : x.ev = u.e /\ x.via = u.via /\ x.outcome = "ok"
     /\ \E c \in Range(store) : c.clientPubkey = u.e.pubkey /\ c.lastUsed

\* C29: while a request is dispatched (its handler runs or its response is
\* with sendResponse), the connection it resolved to, if the store still has
\* it, has lastUsed set in the store.
C29_LastUsedBeforeResponse ==
  \A h \in handlers :
     h.pc \in {"ledger", "encrypt"}
       => \A c \in Range(store) : c.id = h.conn.id => c.lastUsed

\* C29, second half: a stored connection's lastUsed, once set, stays set.
C29_LastUsedStays ==
  [][ \A c \in Range(store), d \in Range(store') :
         (c.id = d.id /\ c.lastUsed) => d.lastUsed ]_vars

\* C30: of two events in progress that one relay delivered, the later one
\* neither has its MethodHandler invoked while the earlier one still waits
\* to be decrypted, nor has its response published while the earlier one,
\* dispatched, has not had its response published.
C30_DeliveryOrder ==
  [][ \A h1 \in handlers, h2 \in handlers :
        (h1.via = h2.via /\ h1.seq < h2.seq /\ h1 \in handlers')
          => /\ ~(/\ h1.pc = "decrypt"
                  /\ \E k \in calls' \ calls : k.ev = h2.ev /\ k.via = h2.via)
             /\ ~(/\ h1.pc \in {"ledger", "encrypt"}
                  /\ \E q \in published' \ published :
                        q.e = h2.ev /\ q.via = h2.via) ]_vars

\* C31: once no request is in progress, the store shows what each store
\* operation of the requests did: a connection bound to a sender's key on
\* first use (and still stored) carries that key, and a connection a request
\* was processed on (decrypted and answered) carries lastUsed.
C31_NoLostUpdate ==
  handlers = {} =>
    /\ \A b \in rebinds : \A c \in Range(store) :
          c.id = b.id => c.clientPubkey = b.key
    /\ \A d \in deliveries :
          (/\ d.outcome \in {"matched", "rebound"}
           /\ \E x \in published \cup unsent : x.e = d.ev /\ x.via = d.via)
            => \A c \in Range(store) : c.id = d.conn => c.lastUsed

\* The (id, secret) pairs of a connection list, in order
Identities(st) == [i \in 1..Len(st) |-> <<st[i].id, st[i].secret>>]

\* The list `ids` with the places in K left out
Without(ids, K) ==
  LET Kept(i) == i \notin K
      Nth[k \in 0..Len(ids)] ==
        IF k = 0 THEN <<>>
        ELSE IF Kept(k) THEN Append(Nth[k-1], ids[k]) ELSE Nth[k-1]
  IN  Nth[Len(ids)]

\* C32: every call of a storage function leaves each stored connection's id
\* and secret as they were: the list of (id, secret) pairs stays the same,
\* or gains one new pair at its end (add), or loses some of its pairs
\* (remove), the others keeping their order.
C32_IdAndSecretImmutable ==
  [][ LET old == Identities(store)
          new == Identities(store')
      IN  \/ new = old
          \/ /\ Len(new) = Len(old) + 1
             /\ SubSeq(new, 1, Len(old)) = old
             /\ \A i \in 1..Len(old) :
                   old[i][1] # new[Len(new)][1] /\ old[i][2] # new[Len(new)][2]
          \/ \E K \in SUBSET (1..Len(old)) : new = Without(old, K) ]_vars

\* A connection that was rebound, touched and renamed, next to a connection
\* added later, after another was removed
C32_Witness ==
  /\ Len(store) = 2
  /\ nextSecret = MaxSecrets
  /\ store[1].name # "" /\ store[1].lastUsed
  /\ store[1].clientPubkey \in UserKeys
  /\ store[1].id = randomUUID(store[1].secret)
  /\ store[2].secret = MaxSecrets

\* C33: whenever a call of the ledger returns or throws, the MethodHandler
\* that made it returns a response of its method, which goes to sendResponse:
\* a result when the ledger call succeeded, otherwise an error, with code
\* INTERNAL for get_balance and make_invoice.
C33_LedgerFailureAnswered ==
  [][ \A h \in handlers :
        (/\ h.pc = "ledger"
         /\ ~\E k \in handlers' :
               k.ev = h.ev /\ k.via = h.via /\ k.pc = "ledger")
        => \E g \in handlers' :
             /\ g.ev = h.ev /\ g.via = h.via /\ g.pc = "encrypt"
             /\ g.resp.result_type = h.ev.content.method
             /\ CASE h.ev.content.method = "get_balance" ->
                      \E r \in reads' \ reads :
                         /\ r.ev = h.ev /\ r.via = h.via /\ r.resp = g.resp
                         /\ (r.ledger.kind = "ok") = (g.resp.code = "")
                         /\ r.ledger.kind # "ok" => g.resp.code = "INTERNAL"
                  [] h.ev.content.method = "make_invoice" ->
                      /\ g.resp.code \in {"", "INTERNAL"}
                      /\ invoiceSatsOf(h.ev.content) > 0
                           => ((trail' # trail) = (g.resp.code = ""))
                  [] OTHER ->
                      \E x \in sends' \ sends :
                         /\ x.ev = h.ev /\ x.via = h.via
                         /\ (x.outcome = "ok") = (g.resp.code = "")
                         /\ x.outcome # "ok" => g.resp.code = "PAYMENT_FAILED"
    ]_vars

\* The ledger threw on a balance query and on an address allocation, and
\* both requests were answered with INTERNAL
C33_Witness ==
  /\ \E q \in published \cup unsent :
        q.resp.result_type = "get_balance" /\ q.resp.code = "INTERNAL"
  /\ \E q \in published \cup unsent :
        q.resp.result_type = "make_invoice" /\ q.resp.code = "INTERNAL"

\* C34: when initPairing finds an unused connection in the store, the store
\* stays as it is, no reload is started, and the URL put on the screen is
\* the pairing URL of the first unused connection: the wallet key, that
\* connection's relay and that connection's secret.
C34_OpenPairingReuses ==
  [][ ( /\ screen' # screen
        /\ screen'.via = "initPairing"
        /\ \E c \in Range(store) : ~c.lastUsed )
        => /\ UNCHANGED <<store, nextSecret, ops, tasks>>
           /\ screen'.reused
           /\ \E i \in 1..Len(store) :
                 /\ ~store[i].lastUsed
                 /\ \A j \in 1..(i-1) : store[j].lastUsed
                 /\ screen'.conn = store[i].id
                 /\ parsePairingUrl(screen'.url) =
                      [null |-> FALSE, walletPubkey |-> walletPubkey,
                       relay |-> Spell(store[i].relay),
                       secret |-> hexEncode(store[i].secret)] ]_vars

C34_Witness == screen.via = "initPairing" /\ screen.reused /\ Len(store) > 1

\* C35: at most one connection of the store is unused (has no lastUsed),
\* whatever screen visits, manual generations, removals and requests happened.
C35_OneUnused ==
  Cardinality({ i \in 1..Len(store) : ~store[i].lastUsed }) <= 1

\* C36: a pay request that specifies a positive amount does not consume the
\* invoice-amount side table: every entry that retrieveInvoiceAmount found and
\* deleted was found for a pay request without a positive amount.
C36_PositiveAmountSkipsTable ==
  \A i \in 1..Len(trail) :
     (trail[i].kind = "retrieve" /\ trail[i].amount # 0)
       => trail[i].ev.content.amount <= 0

\* C37: when stop() returns the pool holds no relay, also when closing a
\* relay failed, and so a start() that gets to its connect loop finds none of
\* its relays in the pool: it opens a connection for every one of them.
C37_StopEmptiesPool ==
  /\ \A r \in stopped : r.poolEnd = <<>>
  /\ \A r \in started : r.op = "start" => r.skipped = {}

\* C38: a pay response with code PAYMENT_FAILED is given only when the send
\* of that request did not succeed (it threw, returned no identifier, or was
\* never made); and when the send returned a transfer identifier, the
\* response of that request is a result carrying that identifier.
C38_PaymentFailedMeansNotSent ==
  \A q \in { [ev |-> h.ev, via |-> h.via, resp |-> h.resp] :
                h \in { k \in handlers : k.pc = "encrypt" } }
          \cup { [ev |-> p.e, via |-> p.via, resp |-> p.resp] :
                   p \in published \cup unsent } :
     q.resp.result_type = "pay_invoice" =>
        LET done == { x \in sends : x.ev = q.ev /\ x.via = q.via } IN
        /\ q.resp.code = "PAYMENT_FAILED"
             => \A x \in done : x.outcome \in {"empty", "throw"}
        /\ (\E x \in done : x.outcome = "ok")
             => q.resp.code = "" /\ q.resp.preimage = <<q.ev, q.via>>

\* Of two pay requests answered, one was sent and one failed in the ledger
C38_Witness ==
  /\ \E p \in published \cup unsent, x \in sends :
        /\ x.ev = p.e /\ x.via = p.via /\ x.outcome = "ok"
        /\ p.resp.preimage = <<p.e, p.via>>
  /\ \E p \in published \cup unsent, x \in sends :
        /\ x.ev = p.e /\ x.via = p.via /\ x.outcome \in {"empty", "throw"}
        /\ p.resp.code = "PAYMENT_FAILED"

\* C39: once a provider operation (the initial start, startServer, stopServer,
\* reloadServer) has completed and none is in progress, the provider's
\* isRunning equals the server's running.
C39_IsRunningMatchesServer ==
  (ops > 0 /\ tasks = {}) => isRunning = running

====
